---- MODULE Spec2Model ----
(***************************************************************************)
(* sqlift: the schema IR (src/schema.rs), the PostgreSQL introspection and *)
(* type mapper (src/introspect), the Python backend (src/codegen/python)   *)
(* and run (src/main.rs) as state machines.                                *)
(*                                                                         *)
(* A Rust String is a sequence of one-character strings.  A DataType is a  *)
(* tuple whose first element is the variant name: <<"Integer">>,           *)
(* <<"Varchar", len>>, <<"Array", inner>>, <<"Enum", name>>.  An           *)
(* Option<u32> is <<"None">> or <<"Some", n>>.  A panic of the Rust code   *)
(* is the value <<"Panic">>.                                               *)
(***************************************************************************)
EXTENDS Integers, Sequences, FiniteSets, TLC

VARIABLES
    pc,         \* position of the caller: "input", "parsed", "table"
    type_str,   \* the raw type string handed to parse_data_type
    base_str,   \* the raw type string of the first parse, before any "[]" was appended
    spelling,   \* the exact-match spelling type_str is a case variant of, or <<>>
    depth,      \* number of "[]" suffixes appended to base_str
    parsed,     \* the value parse_data_type returned for type_str
    table,      \* a schema::Table: [name, columns, primary_key]
    call,       \* the Table method (or naming function) called last
    ret,        \* what that call returned
    filter,     \* the TableFilter: [include, exclude], each an Option<Vec<String>>
    schema_name,\* the schema name handed to introspect
    db,         \* the catalog: [enum_rows, tables, column_rows], as the queries return them
    queries,    \* the catalog queries issued so far: <<kind, schema, table>>
    enums,      \* introspect: the Vec<EnumType> query_enums returned
    table_names,\* introspect: the filtered names the loop has still to visit
    cur_columns,\* introspect: the columns of the table being introspected
    tables,     \* introspect: the Vec<Table> built so far
    result,     \* what introspect, generate or run returned
    schema,     \* the Schema handed to generate, or run has got from introspect
    config,     \* the CodeGenConfig handed to generate
    next_table, \* generate_library: position of the loop in schema.tables
    effects     \* generate: the renders (with their contexts) and file-system calls
                \* made so far; run: the messages logged

vars == <<pc, type_str, base_str, spelling, depth, parsed, table, call, ret,
          filter, schema_name, db, queries, enums, table_names, cur_columns, tables,
          result, schema, config, next_table, effects>>

introVars ==
    <<filter, schema_name, db, queries, enums, table_names, cur_columns, tables>>
genVars == <<schema, config, next_table, effects>>
pipeVars == <<introVars, result, genVars>>

typeVars == <<type_str, base_str, spelling, depth, parsed>>
tableVars == <<table, call, ret>>

----------------------------------------------------------------------------
(* Bounds of the model.                                                    *)

MaxTail == 3
MaxDepth == 2
MaxNameLen == 5
MaxCols == 3
MaxPk == 3
MaxFilterLen == 2
MaxEnumRows == 3
MaxGenTables == 2

----------------------------------------------------------------------------
(* Characters and the std string operations the code uses.                 *)

LowerLetters == <<"a", "b", "c", "d", "e", "f", "g", "h", "i", "j", "k", "l", "m", "n", "o", "p", "q", "r", "s", "t", "u", "v", "w", "x", "y", "z">>
UpperLetters == <<"A", "B", "C", "D", "E", "F", "G", "H", "I", "J", "K", "L", "M", "N", "O", "P", "Q", "R", "S", "T", "U", "V", "W", "X", "Y", "Z">>
Digits == <<"0", "1", "2", "3", "4", "5", "6", "7", "8", "9">>

LetterIndex(c, letters) == CHOOSE i \in 1..Len(letters) : letters[i] = c

IsUpper(c) == \E i \in 1..Len(UpperLetters) : UpperLetters[i] = c
IsLower(c) == \E i \in 1..Len(LowerLetters) : LowerLetters[i] = c
IsDigit(c) == \E i \in 1..Len(Digits) : Digits[i] = c

\* char::to_lowercase / char::to_uppercase on the ASCII range
char_to_lowercase(c) == IF IsUpper(c) THEN LowerLetters[LetterIndex(c, UpperLetters)] ELSE c
char_to_uppercase(c) == IF IsLower(c) THEN UpperLetters[LetterIndex(c, LowerLetters)] ELSE c

\* a parse that compares the raw spelling: the lower-casing is missing
to_lowercase_missing(s) == s

\* str::to_lowercase
to_lowercase(s) == [i \in 1..Len(s) |-> char_to_lowercase(s[i])]

IsWhitespace(c) == c = " "

RECURSIVE trim_start(_)
trim_start(s) ==
    IF s # <<>> /\ IsWhitespace(Head(s)) THEN trim_start(Tail(s)) ELSE s

RECURSIVE trim_end(_)
trim_end(s) ==
    IF s # <<>> /\ IsWhitespace(s[Len(s)]) THEN trim_end(SubSeq(s, 1, Len(s) - 1)) ELSE s

\* str::trim
trim(s) == trim_end(trim_start(s))

\* str::starts_with / str::ends_with / str::contains
starts_with(s, p) == Len(p) <= Len(s) /\ SubSeq(s, 1, Len(p)) = p
ends_with(s, p) == Len(p) <= Len(s) /\ SubSeq(s, Len(s) - Len(p) + 1, Len(s)) = p
contains(s, p) == \E i \in 1..(Len(s) - Len(p) + 1) : SubSeq(s, i, i + Len(p) - 1) = p

\* str::find(char): the 1-based position of the first occurrence, 0 for None
find(s, c) ==
    IF \E i \in 1..Len(s) : s[i] = c
    THEN CHOOSE i \in 1..Len(s) : s[i] = c /\ \A j \in 1..(i - 1) : s[j] # c
    ELSE 0

\* str::split(char): the pieces between the separators, empty pieces included
RECURSIVE split(_, _)
split(s, c) ==
    LET at == find(s, c)
    IN  IF at = 0 THEN <<s>>
        ELSE <<SubSeq(s, 1, at - 1)>> \o split(SubSeq(s, at + 1, Len(s)), c)

----------------------------------------------------------------------------
(* The type mapper: src/introspect/postgres.rs                             *)

None == <<"None">>
Some(n) == <<"Some", n>>
Panic == <<"Panic">>

DigitValue(c) == LetterIndex(c, Digits) - 1

RECURSIVE DecimalValue(_)
DecimalValue(s) ==
    IF s = <<>> THEN 0
    ELSE 10 * DecimalValue(SubSeq(s, 1, Len(s) - 1)) + DigitValue(s[Len(s)])

RECURSIVE StripZeros(_)
StripZeros(s) == IF s # <<>> /\ Head(s) = "0" THEN StripZeros(Tail(s)) ELSE s

\* u32::MAX, as its decimal digits
U32MaxDigits == <<"4", "2", "9", "4", "9", "6", "7", "2", "9", "5">>

\* whether the digit string s denotes a number above u32::MAX
OverflowsU32(s) ==
    LET z == StripZeros(s)
        m == U32MaxDigits
    IN  \/ Len(z) > Len(m)
        \/ /\ Len(z) = Len(m)
           /\ \E i \in 1..Len(z) :
                  /\ DigitValue(z[i]) > DigitValue(m[i])
                  /\ \A j \in 1..(i - 1) : z[j] = m[j]

\* str::parse::<u32>().ok(): an optional '+', then one or more digits, no overflow
parse_u32(s) ==
    LET digits == IF s # <<>> /\ Head(s) = "+" THEN Tail(s) ELSE s
    IN  IF digits = <<>> \/ \E i \in 1..Len(digits) : ~IsDigit(digits[i]) THEN None
        ELSE IF OverflowsU32(digits) THEN None
        ELSE Some(DecimalValue(digits))

\* extract_length: both find calls are from the start of the string; the slice
\* &type_str[start + 1..end] panics when the first ')' precedes the first '('
extract_length(s) ==
    LET start == find(s, "(")
        end == find(s, ")")
    IN  IF start # 0 /\ end # 0
        THEN IF start + 1 > end THEN Panic
             ELSE LET len_str == SubSeq(s, start + 1, end - 1)
                      first_num == Head(split(len_str, ","))
                  IN  parse_u32(trim(first_num))
        ELSE None

RECURSIVE parse_data_type(_)
parse_data_type(s) ==
    LET lower == to_lowercase(s)
        trimmed == trim(lower)
    IN  IF ends_with(trimmed, <<"[", "]">>)
        THEN LET inner == parse_data_type(SubSeq(trimmed, 1, Len(trimmed) - 2))
             IN  IF inner = Panic THEN Panic ELSE <<"Array", inner>>
        ELSE IF starts_with(trimmed, <<"c", "h", "a", "r", "a", "c", "t", "e", "r", " ", "v", "a", "r", "y", "i", "n", "g">>) \/ starts_with(trimmed, <<"v", "a", "r", "c", "h", "a", "r">>)
        THEN LET len == extract_length(trimmed)
             IN  IF len = Panic THEN Panic ELSE <<"Varchar", len>>
        ELSE IF starts_with(trimmed, <<"c", "h", "a", "r", "a", "c", "t", "e", "r", "(">>) \/ starts_with(trimmed, <<"c", "h", "a", "r", "(">>)
        THEN LET len == extract_length(trimmed)
             IN  IF len = Panic THEN Panic ELSE <<"Char", len>>
        ELSE IF starts_with(trimmed, <<"n", "u", "m", "e", "r", "i", "c">>) \/ starts_with(trimmed, <<"d", "e", "c", "i", "m", "a", "l">>)
        THEN <<"Numeric">>
        ELSE IF starts_with(trimmed, <<"t", "i", "m", "e", "s", "t", "a", "m", "p">>)
        THEN IF contains(trimmed, <<"w", "i", "t", "h", " ", "t", "i", "m", "e", " ", "z", "o", "n", "e">>) \/ contains(trimmed, <<"t", "i", "m", "e", "s", "t", "a", "m", "p", "t", "z">>)
             THEN <<"TimestampTz">>
             ELSE <<"Timestamp">>
        ELSE IF starts_with(trimmed, <<"t", "i", "m", "e", " ">>) \/ trimmed = <<"t", "i", "m", "e">>
        THEN IF contains(trimmed, <<"w", "i", "t", "h", " ", "t", "i", "m", "e", " ", "z", "o", "n", "e">>) THEN <<"TimeTz">> ELSE <<"Time">>
        ELSE IF trimmed = <<"s", "m", "a", "l", "l", "i", "n", "t">> \/ trimmed = <<"i", "n", "t", "2">> THEN <<"SmallInt">>
        ELSE IF trimmed = <<"i", "n", "t", "e", "g", "e", "r">> \/ trimmed = <<"i", "n", "t">> \/ trimmed = <<"i", "n", "t", "4">> THEN <<"Integer">>
        ELSE IF trimmed = <<"b", "i", "g", "i", "n", "t">> \/ trimmed = <<"i", "n", "t", "8">> THEN <<"BigInt">>
        ELSE IF trimmed = <<"b", "o", "o", "l", "e", "a", "n">> \/ trimmed = <<"b", "o", "o", "l">> THEN <<"Boolean">>
        ELSE IF trimmed = <<"t", "e", "x", "t">> THEN <<"Text">>
        ELSE IF trimmed = <<"r", "e", "a", "l">> \/ trimmed = <<"f", "l", "o", "a", "t", "4">> THEN <<"Real">>
        ELSE IF trimmed = <<"d", "o", "u", "b", "l", "e", " ", "p", "r", "e", "c", "i", "s", "i", "o", "n">> \/ trimmed = <<"f", "l", "o", "a", "t", "8">> THEN <<"DoublePrecision">>
        ELSE IF trimmed = <<"d", "a", "t", "e">> THEN <<"Date">>
        ELSE IF trimmed = <<"u", "u", "i", "d">> THEN <<"Uuid">>
        ELSE IF trimmed = <<"j", "s", "o", "n">> THEN <<"Json">>
        ELSE IF trimmed = <<"j", "s", "o", "n", "b">> THEN <<"JsonBinary">>
        ELSE IF trimmed = <<"b", "y", "t", "e", "a">> THEN <<"Binary">>
        ELSE IF trimmed = <<"t", "i", "m", "e", "t", "z">> THEN <<"TimeTz">>
        ELSE IF trimmed = <<"t", "i", "m", "e", "s", "t", "a", "m", "p", "t", "z">> THEN <<"TimestampTz">>
        ELSE <<"Enum", s>>

----------------------------------------------------------------------------
(* The values of the variables of a run that has not started.              *)

NoFilter == [include |-> None, exclude |-> None]
NoSchema == [name |-> <<>>, tables |-> <<>>, enums |-> <<>>]
NoConfig == [output_path |-> <<>>, output_mode |-> "Library", function_style |-> "Standalone"]
NoCatalog == [enum_rows |-> <<>>, tables |-> <<>>, column_rows |-> <<>>]
Pending == <<"Pending">>

IdleIntrospect ==
    /\ filter = NoFilter
    /\ schema_name = <<>>
    /\ db = NoCatalog
    /\ queries = <<>>
    /\ enums = <<>>
    /\ table_names = <<>>
    /\ cur_columns = <<>>
    /\ tables = <<>>

IdleGenerate ==
    /\ schema = NoSchema
    /\ config = NoConfig
    /\ next_table = 0
    /\ effects = <<>>

IdleTypes ==
    /\ type_str = <<>>
    /\ base_str = <<>>
    /\ spelling = <<>>
    /\ depth = 0
    /\ parsed = <<"Unparsed">>

----------------------------------------------------------------------------
(* Type strings handed to parse_data_type.  format_type() yields a type    *)
(* name followed by an optional modifier and array suffixes; the inputs    *)
(* are a head (a type name, in some case, possibly after white space)      *)
(* followed by up to MaxTail tail tokens, or a case variant of a spelling  *)
(* of the exact-match table.                                               *)

Heads ==
    { <<>>, <<"v", "a", "r", "c", "h", "a", "r">>, <<"c", "h", "a", "r", "a", "c", "t", "e", "r", " ", "v", "a", "r", "y", "i", "n", "g">>, <<"c", "h", "a", "r">>, <<"c", "h", "a", "r", "a", "c", "t", "e", "r">>,
      <<" ", "V", "a", "r", "C", "h", "a", "r">>, <<"C", "H", "A", "R">>, <<"n", "u", "m", "e", "r", "i", "c">>, <<"t", "i", "m", "e", "s", "t", "a", "m", "p">>, <<"t", "i", "m", "e">>,
      <<"t", "i", "m", "e", "s", "t", "a", "m", "p", " ", "w", "i", "t", "h", " ", "t", "i", "m", "e", " ", "z", "o", "n", "e">>, <<"i", "n", "t", "e", "g", "e", "r">>, <<"F", "o", "o">>, <<"o", "r", "d", "e", "r", "_", "s", "t", "a", "t", "u", "s">> }

Tails == { <<"(">>, <<")">>, <<",">>, <<"2", "5">>, <<"(", "2", "5", ")">>, <<"4", "2", "9", "4", "9", "6", "7", "2", "9", "6">>, <<"x">>, <<"[", "]">>, <<" ">> }

RECURSIVE TailSeqs(_)
TailSeqs(n) ==
    IF n = 0 THEN { <<>> }
    ELSE { <<>> } \cup { t \o r : t \in Tails, r \in TailSeqs(n - 1) }

TokenInputs == { h \o t : h \in Heads, t \in TailSeqs(MaxTail) }

ExactSpellings ==
    { <<"s", "m", "a", "l", "l", "i", "n", "t">>, <<"i", "n", "t", "2">>, <<"i", "n", "t", "e", "g", "e", "r">>, <<"i", "n", "t">>, <<"i", "n", "t", "4">>, <<"b", "i", "g", "i", "n", "t">>, <<"i", "n", "t", "8">>,
      <<"b", "o", "o", "l", "e", "a", "n">>, <<"b", "o", "o", "l">>, <<"t", "e", "x", "t">>, <<"r", "e", "a", "l">>, <<"f", "l", "o", "a", "t", "4">>, <<"d", "o", "u", "b", "l", "e", " ", "p", "r", "e", "c", "i", "s", "i", "o", "n">>,
      <<"f", "l", "o", "a", "t", "8">>, <<"d", "a", "t", "e">>, <<"u", "u", "i", "d">>, <<"j", "s", "o", "n">>, <<"j", "s", "o", "n", "b">>, <<"b", "y", "t", "e", "a">>, <<"t", "i", "m", "e", "t", "z">>,
      <<"t", "i", "m", "e", "s", "t", "a", "m", "p", "t", "z">> }

LetterPositions(s) == { i \in 1..Len(s) : IsLower(s[i]) }

\* s with the letters at the positions in mask in upper case
CaseVariant(s, mask) ==
    [i \in 1..Len(s) |-> IF i \in mask THEN char_to_uppercase(s[i]) ELSE s[i]]

NoTable == [name |-> <<>>, columns |-> <<>>, primary_key |-> <<>>]

InitTypes ==
    /\ pc = "input"
    /\ \/ type_str \in TokenInputs /\ spelling = <<>>
       \/ \E s \in ExactSpellings : \E mask \in SUBSET LetterPositions(s) :
              type_str = CaseVariant(s, mask) /\ spelling = s
    /\ base_str = <<>>
    /\ depth = 0
    /\ parsed = <<"Unparsed">>
    /\ table = NoTable
    /\ call = "none"
    /\ ret = <<>>
    /\ IdleIntrospect
    /\ IdleGenerate
    /\ result = Pending

\* query_columns hands the data_type string of a row to parse_data_type
ParseDataType ==
    /\ pc = "input"
    /\ parsed' = parse_data_type(type_str)
    /\ base_str' = type_str
    /\ depth' = 0
    /\ pc' = "parsed"
    /\ UNCHANGED <<type_str, spelling, tableVars, pipeVars>>

\* the same for the array type over the type string parsed last
ParseArrayOf ==
    /\ pc = "parsed"
    /\ depth < MaxDepth
    /\ type_str' = type_str \o <<"[", "]">>
    /\ parsed' = parse_data_type(type_str')
    /\ depth' = depth + 1
    /\ UNCHANGED <<pc, base_str, spelling, tableVars, pipeVars>>

NextTypes == ParseDataType \/ ParseArrayOf

SpecTypes == InitTypes /\ [][NextTypes]_vars

----------------------------------------------------------------------------
(* Claims about the type mapper, checked under SpecTypes.                  *)

IsPanic(t) == t[1] = "Panic"

RECURSIVE ArrayOf(_, _)
ArrayOf(n, t) == IF n = 0 THEN t ELSE <<"Array", ArrayOf(n - 1, t)>>

IsNameChar(c) == IsLower(c) \/ IsUpper(c) \/ IsDigit(c) \/ c = "_"
IsName(s) == s # <<>> /\ \A i \in 1..Len(s) : IsNameChar(s[i])

\* C1: parse_data_type is total: every input string yields a DataType, never
\* a panic, and a type string with no parenthesised parameter has length None.
C1_ParseIsTotal ==
    pc = "parsed" =>
        /\ ~IsPanic(parsed)
        /\ (find(type_str, "(") = 0 /\ parsed[1] \in {"Varchar", "Char"}
                => parsed[2] = None)

\* C2: if the base string b (here: without surrounding white space) parses to
\* T, then b followed by n "[]" suffixes parses to Array nested exactly n deep
\* around T.
C2_ArrayNesting ==
    pc = "parsed" /\ trim(base_str) = base_str /\ ~IsPanic(parse_data_type(base_str)) =>
        parsed = ArrayOf(depth, parse_data_type(base_str))

\* C3: every upper/lower/mixed-case variant of a spelling of the exact-match
\* table parses to the DataType of the lower-case spelling, by the table.
C3_CaseInsensitive ==
    pc = "parsed" /\ spelling # <<>> /\ depth = 0 =>
        /\ parsed = parse_data_type(spelling)
        /\ parsed[1] \notin {"Enum", "Panic", "Array"}

C3_Witness ==
    /\ pc = "parsed"
    /\ depth = 0
    /\ spelling = <<"d", "o", "u", "b", "l", "e", " ", "p", "r", "e", "c", "i", "s", "i", "o", "n">>
    /\ type_str = <<"D", "O", "U", "B", "L", "E", " ", "p", "R", "E", "C", "I", "S", "I", "O", "N">>
    /\ parsed = <<"DoublePrecision">>

\* C4: for a name r matched by no rule, parse(r) = Enum(r) and r followed by
\* "[]" suffixes parses to Array(...(Enum(r))) with r in its original case.
C4_EnumKeepsCase ==
    pc = "parsed" /\ IsName(base_str) /\ parse_data_type(base_str)[1] = "Enum" =>
        parsed = ArrayOf(depth, <<"Enum", base_str>>)

\* C5: "char" and "character", bare or with a parenthesised length, parse to
\* Char(length), and "varchar" and "character varying" to Varchar(length);
\* the length is None without a parameter.
C5_CharPrefix ==
    pc = "parsed" /\ depth = 0 =>
        /\ \A p \in { <<"c", "h", "a", "r">>, <<"c", "h", "a", "r", "a", "c", "t", "e", "r">> } :
              /\ type_str = p => parsed = <<"Char", None>>
              /\ type_str = p \o <<"(", "2", "5", ")">> => parsed = <<"Char", Some(25)>>
        /\ \A p \in { <<"v", "a", "r", "c", "h", "a", "r">>, <<"c", "h", "a", "r", "a", "c", "t", "e", "r", " ", "v", "a", "r", "y", "i", "n", "g">> } :
              /\ type_str = p => parsed = <<"Varchar", None>>
              /\ type_str = p \o <<"(", "2", "5", ")">> => parsed = <<"Varchar", Some(25)>>

----------------------------------------------------------------------------
(* The naming engine: src/schema.rs                                        *)

\* the closure of class_name and to_pascal_case, with the rest of the word
\* lower-cased: what a "capitalize" helper commonly does
capitalize_lowering_rest(word) ==
    IF word = <<>> THEN <<>>
    ELSE <<char_to_uppercase(Head(word))>> \o to_lowercase(Tail(word))

\* the closure mapped over the words: the first char upper-cased, the rest as is
capitalize(word) ==
    IF word = <<>> THEN <<>>
    ELSE <<char_to_uppercase(Head(word))>> \o Tail(word)

\* Iterator<Item = String>::collect::<String>()
RECURSIVE collect_string(_)
collect_string(words) ==
    IF words = <<>> THEN <<>> ELSE Head(words) \o collect_string(Tail(words))

\* [String]::join(sep)
RECURSIVE join(_, _)
join(words, sep) ==
    IF words = <<>> THEN <<>>
    ELSE IF Len(words) = 1 THEN Head(words)
    ELSE Head(words) \o sep \o join(Tail(words), sep)

\* to_pascal_case without the map over the words
to_pascal_case_unmapped(s) == collect_string(split(s, "_"))

to_pascal_case(s) ==
    LET words == split(s, "_")
    IN  collect_string([k \in 1..Len(words) |-> capitalize(words[k])])

class_name(t) ==
    LET words == split(t.name, "_")
    IN  join([k \in 1..Len(words) |-> capitalize(words[k])], <<>>)

\* singular_class_name with the rule for 's' only
singular_class_name_s_only(t) ==
    LET cn == class_name(t)
    IN  IF ends_with(cn, <<"s">>) /\ ~ends_with(cn, <<"s", "s">>) THEN SubSeq(cn, 1, Len(cn) - 1)
        ELSE cn

singular_class_name(t) ==
    LET cn == class_name(t)
    IN  IF ends_with(cn, <<"i", "e", "s">>) THEN SubSeq(cn, 1, Len(cn) - 3) \o <<"y">>
        ELSE IF ends_with(cn, <<"s">>) /\ ~ends_with(cn, <<"s", "s">>) THEN SubSeq(cn, 1, Len(cn) - 1)
        ELSE cn

\* singular_name with the two rules in the other order
singular_name_s_first(t) ==
    LET name == t.name
    IN  IF ends_with(name, <<"s">>) /\ ~ends_with(name, <<"s", "s">>) THEN SubSeq(name, 1, Len(name) - 1)
        ELSE IF ends_with(name, <<"i", "e", "s">>) THEN SubSeq(name, 1, Len(name) - 3) \o <<"y">>
        ELSE name

singular_name(t) ==
    LET name == t.name
    IN  IF ends_with(name, <<"i", "e", "s">>) THEN SubSeq(name, 1, Len(name) - 3) \o <<"y">>
        ELSE IF ends_with(name, <<"s">>) /\ ~ends_with(name, <<"s", "s">>) THEN SubSeq(name, 1, Len(name) - 1)
        ELSE name

\* Table names: every string of up to MaxNameLen of these characters
NameChars == { "e", "i", "s", "S", "1", "_" }
Names == UNION { [1..n -> NameChars] : n \in 0..MaxNameLen }

InitNames ==
    /\ pc = "table"
    /\ \E n \in Names : table = [name |-> n, columns |-> <<>>, primary_key |-> <<>>]
    /\ call = "none"
    /\ ret = <<>>
    /\ type_str = <<>>
    /\ base_str = <<>>
    /\ spelling = <<>>
    /\ depth = 0
    /\ parsed = <<"Unparsed">>
    /\ IdleIntrospect
    /\ IdleGenerate
    /\ result = Pending

CallToPascalCase ==
    /\ call' = "to_pascal_case"
    /\ ret' = to_pascal_case(table.name)
    /\ UNCHANGED <<pc, table, typeVars, pipeVars>>

CallClassName ==
    /\ call' = "class_name"
    /\ ret' = class_name(table)
    /\ UNCHANGED <<pc, table, typeVars, pipeVars>>

CallSingularClassName ==
    /\ call' = "singular_class_name"
    /\ ret' = singular_class_name(table)
    /\ UNCHANGED <<pc, table, typeVars, pipeVars>>

CallSingularName ==
    /\ call' = "singular_name"
    /\ ret' = singular_name(table)
    /\ UNCHANGED <<pc, table, typeVars, pipeVars>>

NextNames ==
    \/ CallToPascalCase
    \/ CallClassName
    \/ CallSingularClassName
    \/ CallSingularName

SpecNames == InitNames /\ [][NextNames]_vars

----------------------------------------------------------------------------
(* Claims about the naming engine, checked under SpecNames.                *)

\* s read character by character: underscores are dropped, and a character
\* is upper-cased when it starts the string or follows an underscore
PascalOf(s) ==
    LET F[i \in 0..Len(s)] ==
            IF i = 0 THEN <<>>
            ELSE IF s[i] = "_" THEN F[i - 1]
            ELSE F[i - 1] \o << IF i = 1 \/ s[i - 1] = "_"
                                THEN char_to_uppercase(s[i]) ELSE s[i] >>
    IN  F[Len(s)]

\* C6: to_pascal_case(s) is the concatenation of the non-empty segments of s
\* between underscores, each with its first character upper-cased and the
\* rest unchanged; class_name() is to_pascal_case of the table name.
C6_PascalCase ==
    /\ call = "to_pascal_case" => ret = PascalOf(table.name)
    /\ call = "class_name" => ret = to_pascal_case(table.name) /\ ret = PascalOf(table.name)

C6_Witness ==
    /\ call = "class_name"
    /\ table.name = <<"_", "s", "S", "_">>
    /\ ret = <<"S", "S">>

\* p cut into words, a new word starting at each upper-case letter
SplitAtUpper(p) ==
    LET W[i \in 0..Len(p)] ==
            IF i = 0 THEN <<>>
            ELSE IF IsUpper(p[i]) \/ W[i - 1] = <<>> THEN Append(W[i - 1], <<p[i]>>)
            ELSE [W[i - 1] EXCEPT ![Len(W[i - 1])] = Append(@, p[i])]
    IN  W[Len(p)]

LowerWords(ws) == [k \in 1..Len(ws) |-> to_lowercase(ws[k])]

IsWord(w) == w # <<>>
WordsOf(s) == SelectSeq(split(s, "_"), IsWord)

\* no word of s has an upper-case letter after its first character, and every
\* word after the first begins with a letter
WordsShowInCase(s) ==
    LET ws == WordsOf(s)
    IN  \A k \in 1..Len(ws) :
            /\ \A i \in 2..Len(ws[k]) : ~IsUpper(ws[k][i])
            /\ k > 1 => IsLower(ws[k][1]) \/ IsUpper(ws[k][1])

IsSnakeCase(s) == \A i \in 1..Len(s) : ~IsUpper(s[i])

\* C7 as stated: for every identifier (here: every snake_case identifier, of
\* lower-case letters, digits and underscores), cutting to_pascal_case(s) at
\* the upper-case letters gives back, ignoring case, the words of s.
C7_RoundTripAll ==
    call = "to_pascal_case" /\ IsSnakeCase(table.name) =>
        LowerWords(SplitAtUpper(ret)) = LowerWords(WordsOf(table.name))

\* C7 amended: the same for the identifiers whose words show in the case of
\* the result (WordsShowInCase).
C7_RoundTrip ==
    call = "to_pascal_case" /\ WordsShowInCase(table.name) =>
        LowerWords(SplitAtUpper(ret)) = LowerWords(WordsOf(table.name))

C7_Witness ==
    /\ call = "to_pascal_case"
    /\ table.name = <<"s", "_", "i", "e">>
    /\ WordsShowInCase(table.name)
    /\ ret = <<"S", "I", "e">>
    /\ SplitAtUpper(ret) = << <<"S">>, <<"I", "e">> >>

\* C8: singular_name on the table name and singular_class_name on the class
\* name: "ies" at the end becomes "y"; otherwise a final "s" that is not
\* preceded by "s" is dropped; otherwise the name is unchanged.
SingularRule(n, r) ==
    LET len == Len(n)
        ies == len >= 3 /\ n[len - 2] = "i" /\ n[len - 1] = "e" /\ n[len] = "s"
        s == len >= 1 /\ n[len] = "s" /\ ~(len >= 2 /\ n[len - 1] = "s")
    IN  /\ ies => r = SubSeq(n, 1, len - 3) \o <<"y">>
        /\ ~ies /\ s => r = SubSeq(n, 1, len - 1)
        /\ ~ies /\ ~s => r = n

C8_Singular ==
    /\ call = "singular_name" => SingularRule(table.name, ret)
    /\ call = "singular_class_name" => SingularRule(PascalOf(table.name), ret)

C8_Witness ==
    /\ call = "singular_name"
    /\ table.name = <<"s", "i", "e", "s">>
    /\ ret = <<"s", "y">>

\* the last of the words of a name between underscores
LastSegment(n) ==
    LET words == split(n, "_")
    IN  IF words = <<>> THEN <<>> ELSE words[Len(words)]

\* C25 as stated: for every table name singular_class_name() is
\* to_pascal_case(singular_name()).
C25_SingularsAgreeAll ==
    call = "singular_class_name" => ret = to_pascal_case(singular_name(table))

\* C25 amended: the two agree for every name that does not end in '_' and
\* whose last word is none of 's', 'ss' and 'ies'.
C25_SingularsAgree ==
    (/\ call = "singular_class_name"
     /\ ~ends_with(table.name, <<"_">>)
     /\ LastSegment(table.name) \notin { <<"s">>, <<"s", "s">>, <<"i", "e", "s">> })
        => ret = to_pascal_case(singular_name(table))

C25_Witness ==
    /\ call = "singular_class_name"
    /\ table.name = <<"i", "_", "s", "e", "s">>
    /\ ret = <<"I", "S", "e">>
    /\ singular_name(table) = <<"i", "_", "s", "e">>

----------------------------------------------------------------------------
(* Derived metadata of a Table: src/schema.rs.  A Vec<&Column> is the      *)
(* sequence of the positions in table.columns the references point to.     *)

\* Iterator::find over the columns: the first position whose column has the
\* name, 0 for None
find_column(columns, name) ==
    IF \E i \in 1..Len(columns) : columns[i].name = name
    THEN CHOOSE i \in 1..Len(columns) :
            /\ columns[i].name = name
            /\ \A j \in 1..(i - 1) : columns[j].name # name
    ELSE 0

\* has_auto_generated_pk with Iterator::all in place of Iterator::any
has_auto_generated_pk_all(t) ==
    \A k \in 1..Len(t.primary_key) :
        LET at == find_column(t.columns, t.primary_key[k])
        IN  IF at # 0 THEN t.columns[at].is_auto_generated ELSE FALSE

has_auto_generated_pk(t) ==
    \E k \in 1..Len(t.primary_key) :
        LET at == find_column(t.columns, t.primary_key[k])
        IN  IF at # 0 THEN t.columns[at].is_auto_generated ELSE FALSE

\* the filter closure of insert_columns
IsInsertable(col) == ~col.is_auto_generated /\ ~col.has_default

\* Iterator::filter(..).collect() of insert_columns: the positions, from i on,
\* of the columns the closure keeps
RECURSIVE filter_insertable(_, _)
filter_insertable(columns, i) ==
    IF i > Len(columns) THEN <<>>
    ELSE (IF IsInsertable(columns[i]) THEN <<i>> ELSE <<>>)
            \o filter_insertable(columns, i + 1)

\* bool's Ord: false < true
KeyLe(a, b) == ~a \/ b

\* slice::sort_by_key(|col| col.is_nullable), a stable sort: each element is
\* placed behind the elements before it whose key is not greater
RECURSIVE sort_by_is_nullable(_, _)
sort_by_is_nullable(columns, refs) ==
    IF refs = <<>> THEN <<>>
    ELSE LET front == sort_by_is_nullable(columns, SubSeq(refs, 1, Len(refs) - 1))
             x == refs[Len(refs)]
             n == Cardinality({ k \in 1..Len(front) :
                     KeyLe(columns[front[k]].is_nullable, columns[x].is_nullable) })
         IN  SubSeq(front, 1, n) \o <<x>> \o SubSeq(front, n + 1, Len(front))

\* insert_columns with the nullable columns appended in reverse
insert_columns_unstable(t) ==
    LET cols == filter_insertable(t.columns, 1)
        IsNullableRef(i) == t.columns[i].is_nullable
        IsRequiredRef(i) == ~t.columns[i].is_nullable
        nullable == SelectSeq(cols, IsNullableRef)
    IN  SelectSeq(cols, IsRequiredRef)
            \o [k \in 1..Len(nullable) |-> nullable[Len(nullable) + 1 - k]]

insert_columns(t) ==
    LET cols == filter_insertable(t.columns, 1)
    IN  sort_by_is_nullable(t.columns, cols)

\* primary_key_columns as a filter over the columns: physical order
RECURSIVE columns_in_key(_, _)
columns_in_key(t, i) ==
    IF i > Len(t.columns) THEN <<>>
    ELSE (IF \E k \in 1..Len(t.primary_key) : t.primary_key[k] = t.columns[i].name
          THEN <<i>> ELSE <<>>) \o columns_in_key(t, i + 1)

primary_key_columns_physical(t) == columns_in_key(t, 1)

\* filter_map over primary_key, from the k-th name on: a name that find
\* resolves to no column yields nothing
RECURSIVE filter_map_key(_, _)
filter_map_key(t, k) ==
    IF k > Len(t.primary_key) THEN <<>>
    ELSE LET at == find_column(t.columns, t.primary_key[k])
         IN  (IF at # 0 THEN <<at>> ELSE <<>>) \o filter_map_key(t, k + 1)

primary_key_columns(t) == filter_map_key(t, 1)

\* Vec<String>::contains
vec_contains(v, x) == \E k \in 1..Len(v) : v[k] = x

\* the filter of non_pk_columns, from the i-th column on
RECURSIVE filter_non_pk(_, _)
filter_non_pk(t, i) ==
    IF i > Len(t.columns) THEN <<>>
    ELSE (IF ~vec_contains(t.primary_key, t.columns[i].name) THEN <<i>> ELSE <<>>)
            \o filter_non_pk(t, i + 1)

non_pk_columns(t) == filter_non_pk(t, 1)

\* Tables.  The k-th column is named ColName(k): the columns of a table have
\* distinct names.  A primary key may name a column the table does not have.
ColName(k) == <<"c", Digits[k + 1]>>
GhostName == <<"g", "h", "o", "s", "t">>

Column(k, nullable, default, auto) ==
    [name |-> ColName(k), data_type |-> <<"Integer">>, is_nullable |-> nullable,
     has_default |-> default, is_auto_generated |-> auto]

\* every combination of the three flags, no primary key
FlagColumns(n) ==
    { [k \in 1..n |-> Column(k, f[k][1], f[k][2], f[k][3])] :
        f \in [1..n -> BOOLEAN \X BOOLEAN \X BOOLEAN] }

\* every primary key of up to MaxPk names over columns that differ in
\* is_auto_generated (an auto-generated column has a default)
KeyColumns(n) ==
    { [k \in 1..n |-> Column(k, FALSE, f[k], f[k])] : f \in [1..n -> BOOLEAN] }

KeyNames(n) == { ColName(k) : k \in 1..n } \cup { GhostName }
PrimaryKeys(n) == UNION { [1..m -> KeyNames(n)] : m \in 0..MaxPk }

TableName == <<"u", "s", "e", "r", "s">>

\* the tables of n columns
Tables(n) ==
    { [name |-> TableName, columns |-> cols, primary_key |-> <<>>] :
        cols \in FlagColumns(n) }
    \cup
    { [name |-> TableName, columns |-> cols, primary_key |-> pk] :
        cols \in KeyColumns(n), pk \in PrimaryKeys(n) }

InitTable ==
    /\ pc = "table"
    /\ \E n \in 0..MaxCols : table \in Tables(n)
    /\ call = "none"
    /\ ret = <<>>
    /\ type_str = <<>>
    /\ base_str = <<>>
    /\ spelling = <<>>
    /\ depth = 0
    /\ parsed = <<"Unparsed">>
    /\ IdleIntrospect
    /\ IdleGenerate
    /\ result = Pending

CallHasAutoGeneratedPk ==
    /\ call' = "has_auto_generated_pk"
    /\ ret' = has_auto_generated_pk(table)
    /\ UNCHANGED <<pc, table, typeVars, pipeVars>>

CallInsertColumns ==
    /\ call' = "insert_columns"
    /\ ret' = insert_columns(table)
    /\ UNCHANGED <<pc, table, typeVars, pipeVars>>

CallPrimaryKeyColumns ==
    /\ call' = "primary_key_columns"
    /\ ret' = primary_key_columns(table)
    /\ UNCHANGED <<pc, table, typeVars, pipeVars>>

CallNonPkColumns ==
    /\ call' = "non_pk_columns"
    /\ ret' = non_pk_columns(table)
    /\ UNCHANGED <<pc, table, typeVars, pipeVars>>

NextTable ==
    \/ CallHasAutoGeneratedPk
    \/ CallInsertColumns
    \/ CallPrimaryKeyColumns
    \/ CallNonPkColumns

SpecTable == InitTable /\ [][NextTable]_vars

----------------------------------------------------------------------------
(* Claims about the derived metadata, checked under SpecTable.             *)

\* C9: insert_columns() holds exactly the columns that are neither
\* auto-generated nor defaulted, each once; every non-nullable column comes
\* before every nullable one; and within each of the two groups the columns
\* keep their physical order.
C9_InsertColumns ==
    call = "insert_columns" =>
        LET cols == table.columns
        IN  /\ { ret[k] : k \in 1..Len(ret) } =
                   { i \in 1..Len(cols) :
                        cols[i].is_auto_generated = FALSE /\ cols[i].has_default = FALSE }
            /\ \A a, b \in 1..Len(ret) : a < b =>
                   /\ ret[a] # ret[b]
                   /\ ~(cols[ret[a]].is_nullable /\ ~cols[ret[b]].is_nullable)
                   /\ (cols[ret[a]].is_nullable = cols[ret[b]].is_nullable => ret[a] < ret[b])

C9_Witness ==
    /\ call = "insert_columns"
    /\ Len(table.columns) = 3
    /\ table.columns[1].is_nullable /\ IsInsertable(table.columns[1])
    /\ ~table.columns[2].is_nullable /\ IsInsertable(table.columns[2])
    /\ table.columns[3].is_nullable /\ IsInsertable(table.columns[3])
    /\ ret = <<2, 1, 3>>

\* C10: has_auto_generated_pk() is true exactly when some column whose name
\* is in primary_key is auto-generated; false for an empty primary_key and
\* for key names that match no column.
C10_AutoGeneratedPk ==
    call = "has_auto_generated_pk" =>
        LET cols == table.columns
            pk == table.primary_key
            named == { i \in 1..Len(cols) : \E k \in 1..Len(pk) : pk[k] = cols[i].name }
        IN  /\ ret = (\E i \in named : cols[i].is_auto_generated)
            /\ (pk = <<>> => ret = FALSE)
            /\ (named = {} => ret = FALSE)

C10_Witness ==
    /\ call = "has_auto_generated_pk"
    /\ table.primary_key = << GhostName, ColName(2) >>
    /\ Len(table.columns) = 2
    /\ ~table.columns[1].is_auto_generated
    /\ table.columns[2].is_auto_generated
    /\ ret = TRUE

\* C11: primary_key_columns() is the columns named by primary_key, in key
\* order, the names that match no column left out; non_pk_columns() is, in
\* physical order, exactly the columns whose name is not in primary_key.
C11_KeyColumns ==
    LET cols == table.columns
        pk == table.primary_key
        IsColumnName(n) == \E i \in 1..Len(cols) : cols[i].name = n
    IN  /\ call = "primary_key_columns" =>
            /\ \A k \in 1..Len(ret) : ret[k] \in 1..Len(cols)
            /\ [k \in 1..Len(ret) |-> cols[ret[k]].name] = SelectSeq(pk, IsColumnName)
        /\ call = "non_pk_columns" =>
            /\ { ret[k] : k \in 1..Len(ret) } =
                   { i \in 1..Len(cols) : \A k \in 1..Len(pk) : pk[k] # cols[i].name }
            /\ \A a, b \in 1..Len(ret) : a < b => ret[a] < ret[b]

C11_Witness ==
    /\ call = "primary_key_columns"
    /\ Len(table.columns) = 2
    /\ table.primary_key = << ColName(2), GhostName, ColName(1) >>
    /\ ret = <<2, 1>>

----------------------------------------------------------------------------
(* The table filter: src/introspect/mod.rs                                 *)

IsSome(o) == o[1] = "Some"

\* should_include with the include list deciding alone when it has the name
should_include_include_wins(f, name) ==
    IF IsSome(f.include)
    THEN vec_contains(f.include[2], name)
    ELSE ~(IsSome(f.exclude) /\ vec_contains(f.exclude[2], name))

should_include(f, name) ==
    IF IsSome(f.include) /\ ~vec_contains(f.include[2], name) THEN FALSE
    ELSE IF IsSome(f.exclude) /\ vec_contains(f.exclude[2], name) THEN FALSE
    ELSE TRUE

\* The table names of the catalog, in the order of ORDER BY c.relname
CatalogNames == << <<"_", "_", "i", "n", "i", "t", "_", "_">>, <<"e", "n", "u", "m", "s">>, <<"u", "s", "e", "r", "s">> >>
NameSet == { CatalogNames[k] : k \in 1..Len(CatalogNames) }

NameLists == UNION { [1..n -> NameSet] : n \in 0..MaxFilterLen }
OptionalNameLists == { None } \cup { Some(l) : l \in NameLists }
Filters == [include : OptionalNameLists, exclude : OptionalNameLists]

InitFilter ==
    /\ pc = "filter"
    /\ filter \in Filters
    /\ schema_name = <<>>
    /\ db = NoCatalog
    /\ queries = <<>>
    /\ enums = <<>>
    /\ table_names = <<>>
    /\ cur_columns = <<>>
    /\ tables = <<>>
    /\ table = NoTable
    /\ call = "none"
    /\ ret = <<>>
    /\ IdleTypes
    /\ IdleGenerate
    /\ result = Pending

\* ret is the name asked about and the answer
CallShouldInclude ==
    /\ pc = "filter"
    /\ \E name \in NameSet :
          /\ call' = "should_include"
          /\ ret' = <<name, should_include(filter, name)>>
    /\ UNCHANGED <<pc, table, typeVars, pipeVars>>

NextFilter == CallShouldInclude

SpecFilter == InitFilter /\ [][NextFilter]_vars

InList(o, name) == \E k \in 1..Len(o[2]) : o[2][k] = name

\* C12: should_include(name) is true iff (include is absent or has the name)
\* and (exclude is absent or has not the name); a name in both lists is
\* rejected, and an include list that is present but empty rejects every name.
C12_ShouldInclude ==
    call = "should_include" =>
        LET name == ret[1]
            inc == filter.include
            exc == filter.exclude
        IN  /\ ret[2] = ((inc = None \/ InList(inc, name)) /\ (exc = None \/ ~InList(exc, name)))
            /\ (inc # None /\ exc # None /\ InList(inc, name) /\ InList(exc, name)
                    => ret[2] = FALSE)
            /\ (inc = Some(<<>>) => ret[2] = FALSE)

C12_Witness ==
    /\ call = "should_include"
    /\ filter.include = Some(<< <<"u", "s", "e", "r", "s">>, <<"e", "n", "u", "m", "s">> >>)
    /\ filter.exclude = Some(<< <<"u", "s", "e", "r", "s">> >>)
    /\ ret = << <<"u", "s", "e", "r", "s">>, FALSE >>

----------------------------------------------------------------------------
(* PostgresIntrospector::introspect: src/introspect/postgres.rs.  Each     *)
(* action is the code up to and including one catalog query; a query       *)
(* either returns its rows or fails.                                       *)

Ok(v) == <<"Ok", v>>
Err(e) == <<"Err", e>>

\* SqliftError::Introspection with the table name in the schema field
introspection_error_for_table(schema_n, what, table_n) ==
    <<"Introspection", table_n, <<what, table_n>>>>

\* SqliftError::Introspection { schema, message }: the message is kept as the
\* text of the format string and the table name it is given
introspection_error(schema_n, what, table_n) ==
    <<"Introspection", schema_n, <<what, table_n>>>>

\* is_auto_generated_column that compares the expression as it is written
is_auto_generated_column_as_written(default_value) ==
    IF IsSome(default_value)
    THEN contains(default_value[2], <<"n", "e", "x", "t", "v", "a", "l", "(">>) \/ contains(default_value[2], <<"g", "e", "n", "e", "r", "a", "t", "e", "d">>)
    ELSE FALSE

is_auto_generated_column(default_value) ==
    IF IsSome(default_value)
    THEN LET lower == to_lowercase(default_value[2])
         IN  contains(lower, <<"n", "e", "x", "t", "v", "a", "l", "(">>) \/ contains(lower, <<"g", "e", "n", "e", "r", "a", "t", "e", "d">>)
    ELSE FALSE

\* the loop of query_columns over the rows
columns_of_rows(rows) ==
    [k \in 1..Len(rows) |->
        [name |-> rows[k].column_name,
         data_type |-> parse_data_type(rows[k].data_type),
         is_nullable |-> rows[k].is_nullable,
         has_default |-> IsSome(rows[k].default_value),
         is_auto_generated |-> is_auto_generated_column(rows[k].default_value)]]

\* enums.iter_mut().find(|e| e.name == enum_name): the position, 0 for None
find_enum(es, name) ==
    IF \E i \in 1..Len(es) : es[i].name = name
    THEN CHOOSE i \in 1..Len(es) : es[i].name = name /\ \A j \in 1..(i - 1) : es[j].name # name
    ELSE 0

\* the loop of query_enums that looks at the enum pushed last only
RECURSIVE group_adjacent_rows(_, _)
group_adjacent_rows(rows, es) ==
    IF rows = <<>> THEN es
    ELSE LET enum_name == Head(rows)[1]
             enum_value == Head(rows)[2]
         IN  IF es # <<>> /\ es[Len(es)].name = enum_name
             THEN group_adjacent_rows(Tail(rows),
                      [es EXCEPT ![Len(es)].values = Append(@, enum_value)])
             ELSE group_adjacent_rows(Tail(rows),
                      Append(es, [name |-> enum_name, values |-> <<enum_value>>]))

\* the loop of query_enums over the rows, es being the enums found so far
RECURSIVE group_enum_rows(_, _)
group_enum_rows(rows, es) ==
    IF rows = <<>> THEN es
    ELSE LET enum_name == Head(rows)[1]
             enum_value == Head(rows)[2]
             at == find_enum(es, enum_name)
         IN  IF at # 0
             THEN group_enum_rows(Tail(rows), [es EXCEPT ![at].values = Append(@, enum_value)])
             ELSE group_enum_rows(Tail(rows),
                      Append(es, [name |-> enum_name, values |-> <<enum_value>>]))

\* introspect without the filter
filter_table_names_all(all_table_names, f) == all_table_names

\* all_table_names.into_iter().filter(|name| filter.should_include(name)).collect()
RECURSIVE filter_table_names(_, _)
filter_table_names(all_table_names, f) ==
    IF all_table_names = <<>> THEN <<>>
    ELSE (IF should_include(f, Head(all_table_names)) THEN <<Head(all_table_names)>> ELSE <<>>)
            \o filter_table_names(Tail(all_table_names), f)

\* The catalog.  Every table has the same two columns and the key (id); the
\* type strings are those format_type() prints.
CatalogColumnRows(table_n) ==
    << [column_name |-> <<"i", "d">>, data_type |-> <<"i", "n", "t", "e", "g", "e", "r">>, is_nullable |-> FALSE,
        default_value |-> Some(<<"n", "e", "x", "t", "v", "a", "l", "(", "'", "s", "'", ")">>)],
       [column_name |-> <<"n", "o", "t", "e">>, data_type |-> <<"c", "h", "a", "r", "a", "c", "t", "e", "r", " ", "v", "a", "r", "y", "i", "n", "g", "(", "2", "5", ")">>,
        is_nullable |-> TRUE, default_value |-> None] >>

CatalogKeyRows(table_n) == << <<"i", "d">> >>

SampleColumnRows == CatalogColumnRows(<<"u", "s", "e", "r", "s">>)

\* default expressions as pg_get_expr prints them, NULL for no default
DefaultValues ==
    { None, Some(<<"0">>), Some(<<"'", "g", "e", "n", "'", ":", ":", "t", "e", "x", "t">>), Some(<<"n", "e", "x", "t", "v", "a", "l", "(", "'", "s", "'", ":", ":", "r", "e", "g", "c", "l", "a", "s", "s", ")">>),
      Some(<<"N", "E", "X", "T", "V", "A", "L", "(", "'", "s", "'", ")">>), Some(<<"G", "e", "n", "e", "r", "a", "t", "e", "d">>), Some(<<"'", "i", "s", " ", "g", "e", "n", "e", "r", "a", "t", "e", "d", "'", ":", ":", "t", "e", "x", "t">>) }

\* the rows of a table of up to MaxCols integer columns, the first the key
ColumnRowSeqs ==
    UNION { { [k \in 1..n |-> [column_name |-> IF k = 1 THEN <<"i", "d">> ELSE ColName(k),
                               data_type |-> <<"i", "n", "t", "e", "g", "e", "r">>,
                               is_nullable |-> (k > 1), default_value |-> dv[k]]] :
                dv \in [1..n -> DefaultValues] } : n \in 1..MaxCols }

SchemaNames == { <<"p", "u", "b", "l", "i", "c">>, <<"a", "p", "p">> }

EnumNames == { <<"m", "o", "o", "d">>, <<"o", "_", "s">> }
EnumLabels == { <<"x">>, <<"y">> }
EnumRowSeqs == UNION { [1..n -> EnumNames \X EnumLabels] : n \in 0..MaxEnumRows }
SampleEnumRows == << <<<<"m", "o", "o", "d">>, <<"x">>>>, <<<<"m", "o", "o", "d">>, <<"y">>>> >>

\* the sub-sequences of CatalogNames: the tables the schema may hold
RECURSIVE SubSeqsOf(_)
SubSeqsOf(s) ==
    IF s = <<>> THEN { <<>> }
    ELSE LET rest == SubSeqsOf(Tail(s))
         IN  rest \cup { <<Head(s)>> \o r : r \in rest }

InitIntrospect ==
    /\ pc = "query_enums"
    /\ schema_name \in SchemaNames
    /\ \/ /\ filter = NoFilter
          /\ \E rows \in EnumRowSeqs : db = [enum_rows |-> rows, tables |-> CatalogNames,
                                           column_rows |-> SampleColumnRows]
       \/ /\ filter \in Filters
          /\ \E names \in SubSeqsOf(CatalogNames) :
                db = [enum_rows |-> SampleEnumRows, tables |-> names,
                      column_rows |-> SampleColumnRows]
       \/ /\ filter = NoFilter
          /\ \E rows \in ColumnRowSeqs :
                db = [enum_rows |-> SampleEnumRows, tables |-> <<CatalogNames[3]>>,
                      column_rows |-> rows]
    /\ queries = <<>>
    /\ enums = <<>>
    /\ table_names = <<>>
    /\ cur_columns = <<>>
    /\ tables = <<>>
    /\ result = Pending
    /\ table = NoTable
    /\ call = "none"
    /\ ret = <<>>
    /\ IdleTypes
    /\ IdleGenerate

QueryEnums ==
    /\ pc = "query_enums"
    /\ queries' = Append(queries, <<"enums", schema_name, <<>>>>)
    /\ \/ /\ enums' = group_enum_rows(db.enum_rows, <<>>)
          /\ pc' = "query_tables"
          /\ UNCHANGED result
       \/ /\ result' = Err(introspection_error(schema_name, "Failed to query enums", <<>>))
          /\ pc' = "failed"
          /\ UNCHANGED enums
    /\ UNCHANGED <<filter, schema_name, db, table_names, cur_columns, tables,
                   typeVars, tableVars, genVars>>

QueryTables ==
    /\ pc = "query_tables"
    /\ queries' = Append(queries, <<"tables", schema_name, <<>>>>)
    /\ \/ /\ table_names' = filter_table_names(db.tables, filter)
          /\ pc' = "tables_loop"
          /\ UNCHANGED result
       \/ /\ result' = Err(introspection_error(schema_name, "Failed to query tables", <<>>))
          /\ pc' = "failed"
          /\ UNCHANGED table_names
    /\ UNCHANGED <<filter, schema_name, db, enums, cur_columns, tables,
                   typeVars, tableVars, genVars>>

QueryColumns ==
    /\ pc = "tables_loop"
    /\ table_names # <<>>
    /\ queries' = Append(queries, <<"columns", schema_name, Head(table_names)>>)
    /\ \/ /\ cur_columns' = columns_of_rows(db.column_rows)
          /\ pc' = "query_primary_key"
          /\ UNCHANGED result
       \/ /\ result' = Err(introspection_error(schema_name,
                              "Failed to query columns for table", Head(table_names)))
          /\ pc' = "failed"
          /\ UNCHANGED cur_columns
    /\ UNCHANGED <<filter, schema_name, db, enums, table_names, tables,
                   typeVars, tableVars, genVars>>

QueryPrimaryKey ==
    /\ pc = "query_primary_key"
    /\ queries' = Append(queries, <<"primary_key", schema_name, Head(table_names)>>)
    /\ \/ /\ tables' = Append(tables, [name |-> Head(table_names),
                                       columns |-> cur_columns,
                                       primary_key |-> CatalogKeyRows(Head(table_names))])
          /\ table_names' = Tail(table_names)
          /\ pc' = "tables_loop"
          /\ UNCHANGED result
       \/ /\ result' = Err(introspection_error(schema_name,
                              "Failed to query primary key for table", Head(table_names)))
          /\ pc' = "failed"
          /\ UNCHANGED <<tables, table_names>>
    /\ UNCHANGED <<filter, schema_name, db, enums, cur_columns,
                   typeVars, tableVars, genVars>>

IntrospectReturn ==
    /\ pc = "tables_loop"
    /\ table_names = <<>>
    /\ result' = Ok([name |-> schema_name, tables |-> tables, enums |-> enums])
    /\ pc' = "introspected"
    /\ UNCHANGED <<introVars, typeVars, tableVars, genVars>>

NextIntrospect ==
    \/ QueryEnums
    \/ QueryTables
    \/ QueryColumns
    \/ QueryPrimaryKey
    \/ IntrospectReturn

SpecIntrospect == InitIntrospect /\ [][NextIntrospect]_vars

IsTableQuery(q) == q[1] \in {"columns", "primary_key"}

TableNamesOf(ts) == [k \in 1..Len(ts) |-> ts[k].name]

PassingNames == SelectSeq(db.tables, LAMBDA n : should_include(filter, n))

\* C13: a column or primary-key query is issued only for a table name that
\* passes filter.should_include, and only after the enum query and the
\* table-list query, in that order, have returned; the Schema returned holds
\* exactly the passing names, in the order of the table list.
C13_FilterBeforeTableQueries ==
    /\ \A k \in 1..Len(queries) :
          IsTableQuery(queries[k]) =>
              /\ should_include(filter, queries[k][3])
              /\ k > 2
              /\ queries[1][1] = "enums"
              /\ queries[2][1] = "tables"
              /\ enums = group_enum_rows(db.enum_rows, <<>>)
    /\ pc = "introspected" =>
          /\ result[1] = "Ok"
          /\ TableNamesOf(result[2].tables) = PassingNames
          /\ \A n \in 1..Len(PassingNames) :
                /\ queries[2 * n + 1] = <<"columns", schema_name, PassingNames[n]>>
                /\ queries[2 * n + 2] = <<"primary_key", schema_name, PassingNames[n]>>

\* a schema of three tables of which the filter, with both lists present,
\* lets one through
C13_Witness ==
    /\ pc = "introspected"
    /\ Len(db.tables) = 3
    /\ IsSome(filter.include)
    /\ IsSome(filter.exclude)
    /\ Len(result[2].tables) = 1
    /\ Len(queries) = 4

EnumsResolved ==
    \/ pc \in {"query_tables", "tables_loop", "query_primary_key", "introspected"}
    \/ pc = "failed" /\ Len(queries) > 1

FirstRow(rows, name) == CHOOSE k \in 1..Len(rows) :
    rows[k][1] = name /\ \A j \in 1..(k - 1) : rows[j][1] # name

LabelsOf(rows, name) ==
    LET own == SelectSeq(rows, LAMBDA r : r[1] = name)
    IN  [k \in 1..Len(own) |-> own[k][2]]

\* C14: the enums are one EnumType per distinct enum name of the rows, in
\* the order of the names' first rows, each with the labels of its rows in
\* row order, whether or not the rows of a name are adjacent.
C14_EnumGrouping ==
    EnumsResolved =>
        LET rows == db.enum_rows
        IN  /\ { enums[i].name : i \in 1..Len(enums) } = { rows[k][1] : k \in 1..Len(rows) }
            /\ \A i, j \in 1..Len(enums) :
                  /\ enums[i].name = enums[j].name => i = j
                  /\ i < j => FirstRow(rows, enums[i].name) < FirstRow(rows, enums[j].name)
            /\ \A i \in 1..Len(enums) : enums[i].values = LabelsOf(rows, enums[i].name)

\* rows of one enum separated by a row of another
C14_Witness ==
    /\ EnumsResolved
    /\ Len(db.enum_rows) = 3
    /\ db.enum_rows[1][1] = db.enum_rows[3][1]
    /\ db.enum_rows[1][1] # db.enum_rows[2][1]
    /\ db.enum_rows[1][2] # db.enum_rows[3][2]
    /\ Len(enums) = 2
    /\ Len(enums[1].values) = 2

NoQueryTwice == \A i, j \in 1..Len(queries) : queries[i] = queries[j] => i = j

\* C15: once a catalog query has failed, introspect has returned an
\* Introspection error whose schema is the requested schema_name and no
\* Schema; no query was issued twice and none is issued afterwards; an error
\* is returned in no other case.
C15_FailureStops ==
    /\ [](pc = "failed" =>
            /\ result[1] = "Err"
            /\ result[2][1] = "Introspection"
            /\ result[2][2] = schema_name
            /\ NoQueryTwice)
    /\ [](pc # "failed" => result = Pending \/ result[1] = "Ok")
    /\ [][pc # "failed"]_vars

\* the primary-key query of the second table fails, one table already built
C15_Witness ==
    /\ pc = "failed"
    /\ queries[Len(queries)][1] = "primary_key"
    /\ Len(tables) = 1
    /\ result[1] = "Err"

\* the expression has the pattern in it, in whatever case
ContainsIgnoringCase(s, pattern) ==
    \E at \in 0..(Len(s) - Len(pattern)) :
        \A j \in 1..Len(pattern) : char_to_lowercase(s[at + j]) = pattern[j]

MarksAutoGenerated(default_value) ==
    /\ default_value # None
    /\ \/ ContainsIgnoringCase(default_value[2], <<"n", "e", "x", "t", "v", "a", "l", "(">>)
       \/ ContainsIgnoringCase(default_value[2], <<"g", "e", "n", "e", "r", "a", "t", "e", "d">>)

\* the tables introspect has built, and the columns of the one in work
IntrospectedColumns ==
    { tables[k].columns : k \in 1..Len(tables) } \cup { cur_columns }

\* C28: a column of an introspected table is auto-generated exactly when its
\* default expression has 'nextval(' or 'generated' in it, in any case; so
\* it has a default when it is auto-generated, a column without a default
\* expression is not auto-generated, and insert_columns() of an
\* introspected table has no auto-generated column.
C28_AutoGeneratedHasDefault ==
    /\ \A cols \in IntrospectedColumns : \A k \in 1..Len(cols) :
          /\ cols[k].is_auto_generated => cols[k].has_default
          /\ cols[k].is_auto_generated <=> MarksAutoGenerated(db.column_rows[k].default_value)
          /\ db.column_rows[k].default_value = None => ~cols[k].is_auto_generated
    /\ \A t \in 1..Len(tables) :
          LET refs == insert_columns(tables[t])
          IN  \A k \in 1..Len(refs) : ~tables[t].columns[refs[k]].is_auto_generated

\* a key with an upper-case NEXTVAL default, a column without a default and
\* one with a constant default: only the second is an insert column
C28_Witness ==
    /\ pc = "introspected"
    /\ Len(result[2].tables) = 1
    /\ Len(db.column_rows) = 3
    /\ db.column_rows[1].default_value = Some(<<"N", "E", "X", "T", "V", "A", "L", "(", "'", "s", "'", ")">>)
    /\ db.column_rows[2].default_value = None
    /\ db.column_rows[3].default_value = Some(<<"0">>)
    /\ result[2].tables[1].columns[1].is_auto_generated
    /\ insert_columns(result[2].tables[1]) = <<2>>

----------------------------------------------------------------------------
(* The render contexts of the Python backend: python_type, the import      *)
(* lists and build_table_context, src/codegen/python/mod.rs.               *)

\* the characters of the import lines and type names, in byte order
ByteOrder ==
    <<" ", ",", ".", "0", "1", "2", "3", "4", "5", "6", "7", "8", "9",
      "A", "B", "C", "D", "E", "F", "G", "H", "I", "J", "K", "L", "M",
      "N", "O", "P", "Q", "R", "S", "T", "U", "V", "W", "X", "Y", "Z",
      "[", "]", "_",
      "a", "b", "c", "d", "e", "f", "g", "h", "i", "j", "k", "l", "m",
      "n", "o", "p", "q", "r", "s", "t", "u", "v", "w", "x", "y", "z", "|">>

byte_of(c) == CHOOSE i \in 1..Len(ByteOrder) : ByteOrder[i] = c

\* Ord for String: the order of the bytes, a proper prefix first
RECURSIVE string_lt(_, _)
string_lt(a, b) ==
    IF b = <<>> THEN FALSE
    ELSE IF a = <<>> THEN TRUE
    ELSE IF Head(a) = Head(b) THEN string_lt(Tail(a), Tail(b))
    ELSE byte_of(Head(a)) < byte_of(Head(b))

\* imports.into_iter().collect() followed by sort(): whatever order the
\* HashSet is iterated in, the Vec ends in ascending order
RECURSIVE sorted_vec(_)
sorted_vec(set) ==
    IF set = {} THEN <<>>
    ELSE LET first == CHOOSE x \in set : \A y \in set : y = x \/ string_lt(x, y)
         IN  <<first>> \o sorted_vec(set \ {first})

\* schema.enums.iter().any(|e| &e.name == name)
enum_exists(sch, name) == \E i \in 1..Len(sch.enums) : sch.enums[i].name = name

\* python_type without the lookup in schema.enums
RECURSIVE python_type_any_enum(_, _, _)
python_type_any_enum(data_type, is_nullable, sch) ==
    LET base_type ==
          IF data_type[1] = "Array"
          THEN <<"l", "i", "s", "t", "[">> \o python_type_any_enum(data_type[2], FALSE, sch) \o <<"]">>
          ELSE IF data_type[1] = "Enum" THEN to_pascal_case(data_type[2])
          ELSE <<"i", "n", "t">>
    IN  IF is_nullable THEN base_type \o <<" ", "|", " ", "N", "o", "n", "e">> ELSE base_type

RECURSIVE python_type(_, _, _)
python_type(data_type, is_nullable, sch) ==
    LET tag == data_type[1]
        base_type ==
          CASE tag \in {"SmallInt", "Integer", "BigInt"} -> <<"i", "n", "t">>
            [] tag = "Boolean" -> <<"b", "o", "o", "l">>
            [] tag \in {"Text", "Varchar", "Char"} -> <<"s", "t", "r">>
            [] tag \in {"Real", "DoublePrecision"} -> <<"f", "l", "o", "a", "t">>
            [] tag = "Numeric" -> <<"D", "e", "c", "i", "m", "a", "l">>
            [] tag \in {"Timestamp", "TimestampTz"} -> <<"d", "a", "t", "e", "t", "i", "m", "e">>
            [] tag = "Date" -> <<"d", "a", "t", "e">>
            [] tag \in {"Time", "TimeTz"} -> <<"t", "i", "m", "e">>
            [] tag = "Uuid" -> <<"U", "U", "I", "D">>
            [] tag \in {"Json", "JsonBinary"} -> <<"d", "i", "c", "t", "[", "s", "t", "r", ",", " ", "A", "n", "y", "]">>
            [] tag = "Binary" -> <<"b", "y", "t", "e", "s">>
            [] tag = "Array" -> <<"l", "i", "s", "t", "[">> \o python_type(data_type[2], FALSE, sch) \o <<"]">>
            [] tag = "Enum" ->
                 IF enum_exists(sch, data_type[2]) THEN to_pascal_case(data_type[2])
                 ELSE <<"s", "t", "r">>
    IN  IF is_nullable THEN base_type \o <<" ", "|", " ", "N", "o", "n", "e">> ELSE base_type

\* collect_type_imports that does not look into arrays
collect_type_imports_shallow(data_type, sch, imports) ==
    IF data_type[1] = "Numeric" THEN imports \cup { <<"f", "r", "o", "m", " ", "d", "e", "c", "i", "m", "a", "l", " ", "i", "m", "p", "o", "r", "t", " ", "D", "e", "c", "i", "m", "a", "l">> }
    ELSE imports

\* collect_type_imports: the set after the inserts
RECURSIVE collect_type_imports(_, _, _)
collect_type_imports(data_type, sch, imports) ==
    LET tag == data_type[1]
    IN  CASE tag = "Numeric" -> imports \cup { <<"f", "r", "o", "m", " ", "d", "e", "c", "i", "m", "a", "l", " ", "i", "m", "p", "o", "r", "t", " ", "D", "e", "c", "i", "m", "a", "l">> }
          [] tag \in {"Timestamp", "TimestampTz"} ->
               imports \cup { <<"f", "r", "o", "m", " ", "d", "a", "t", "e", "t", "i", "m", "e", " ", "i", "m", "p", "o", "r", "t", " ", "d", "a", "t", "e", "t", "i", "m", "e">> }
          [] tag = "Date" -> imports \cup { <<"f", "r", "o", "m", " ", "d", "a", "t", "e", "t", "i", "m", "e", " ", "i", "m", "p", "o", "r", "t", " ", "d", "a", "t", "e">> }
          [] tag \in {"Time", "TimeTz"} -> imports \cup { <<"f", "r", "o", "m", " ", "d", "a", "t", "e", "t", "i", "m", "e", " ", "i", "m", "p", "o", "r", "t", " ", "t", "i", "m", "e">> }
          [] tag = "Uuid" -> imports \cup { <<"f", "r", "o", "m", " ", "u", "u", "i", "d", " ", "i", "m", "p", "o", "r", "t", " ", "U", "U", "I", "D">> }
          [] tag \in {"Json", "JsonBinary"} -> imports \cup { <<"f", "r", "o", "m", " ", "t", "y", "p", "i", "n", "g", " ", "i", "m", "p", "o", "r", "t", " ", "A", "n", "y">> }
          [] tag = "Array" -> collect_type_imports(data_type[2], sch, imports)
          [] tag = "Enum" ->
               IF enum_exists(sch, data_type[2])
               THEN imports \cup { <<"f", "r", "o", "m", " ", ".", "e", "n", "u", "m", "s", " ", "i", "m", "p", "o", "r", "t", " ">> \o to_pascal_case(data_type[2]) }
               ELSE imports
          [] OTHER -> imports

\* the loop over the columns, from the i-th on
RECURSIVE collect_column_imports(_, _, _, _)
collect_column_imports(cols, i, sch, imports) ==
    IF i > Len(cols) THEN imports
    ELSE collect_column_imports(cols, i + 1, sch,
                                collect_type_imports(cols[i].data_type, sch, imports))

collect_table_imports(t, sch) ==
    sorted_vec(collect_column_imports(t.columns, 1, sch, {}))

\* the loop over the tables, from the k-th on
RECURSIVE collect_schema_imports(_, _, _)
collect_schema_imports(sch, k, imports) ==
    IF k > Len(sch.tables) THEN imports
    ELSE collect_schema_imports(sch, k + 1,
                                collect_column_imports(sch.tables[k].columns, 1, sch, imports))

collect_imports(sch) == sorted_vec(collect_schema_imports(sch, 1, {}))

build_column_context(col, sch) ==
    [name |-> col.name,
     python_type |-> python_type(col.data_type, col.is_nullable, sch),
     base_type |-> python_type(col.data_type, FALSE, sch),
     is_nullable |-> col.is_nullable,
     has_default |-> col.has_default,
     is_auto_generated |-> col.is_auto_generated]

\* .iter().map(|col| build_column_context(col, schema)).collect() over a
\* Vec<&Column>, given as positions in t.columns
column_contexts(t, refs, sch) ==
    [k \in 1..Len(refs) |-> build_column_context(t.columns[refs[k]], sch)]

build_table_context(t, sch) ==
    [table_name |-> t.name,
     record_name |-> singular_class_name(t) \o <<"R", "e", "c", "o", "r", "d">>,
     class_name |-> singular_class_name(t),
     columns |-> [k \in 1..Len(t.columns) |-> build_column_context(t.columns[k], sch)],
     pk_columns |-> column_contexts(t, primary_key_columns(t), sch),
     insert_columns |-> column_contexts(t, insert_columns(t), sch),
     non_pk_columns |-> column_contexts(t, non_pk_columns(t), sch),
     has_pk |-> t.primary_key # <<>>,
     has_auto_generated_pk |-> has_auto_generated_pk(t),
     imports |-> collect_table_imports(t, sch)]

\* the enum contexts of render_enums and render_flat
enum_contexts(es) ==
    [k \in 1..Len(es) |->
        [name |-> to_pascal_case(es[k].name), db_name |-> es[k].name, values |-> es[k].values]]

\* render_enums: the context
enums_context(es) == [enums |-> enum_contexts(es)]

\* render_init: the context
init_context(sch) ==
    [tables |-> [k \in 1..Len(sch.tables) |->
                    [module_name |-> sch.tables[k].name,
                     record_name |-> singular_class_name(sch.tables[k]) \o <<"R", "e", "c", "o", "r", "d">>]],
     has_enums |-> sch.enums # <<>>,
     enums |-> [k \in 1..Len(sch.enums) |-> to_pascal_case(sch.enums[k].name)]]

\* render_flat: the context
flat_context(sch, cfg) ==
    [enums |-> enum_contexts(sch.enums),
     tables |-> [k \in 1..Len(sch.tables) |-> build_table_context(sch.tables[k], sch)],
     imports |-> collect_imports(sch),
     function_style |-> IF cfg.function_style = "Standalone" THEN "standalone" ELSE "class"]

----------------------------------------------------------------------------
(* PythonGenerator::generate: src/codegen/python/mod.rs.  A path is the    *)
(* sequence of its characters with '/' between components; the paths of    *)
(* the model have no root, no trailing '/' and no '..' component.          *)

last_index_of(s, c) ==
    IF \E i \in 1..Len(s) : s[i] = c
    THEN CHOOSE i \in 1..Len(s) : s[i] = c /\ \A j \in (i + 1)..Len(s) : s[j] # c
    ELSE 0

\* Path::file_name
file_name(p) ==
    IF p = <<>> THEN None ELSE Some(SubSeq(p, last_index_of(p, "/") + 1, Len(p)))

\* Path::extension: what follows the last '.' of the file name, unless the
\* only '.' is its first character
extension(p) ==
    IF file_name(p) = None THEN None
    ELSE LET f == file_name(p)[2]
             dot == last_index_of(f, ".")
         IN  IF dot <= 1 THEN None ELSE Some(SubSeq(f, dot + 1, Len(f)))

\* Path::file_stem
file_stem(p) ==
    IF file_name(p) = None THEN None
    ELSE LET f == file_name(p)[2]
             dot == last_index_of(f, ".")
         IN  IF dot <= 1 THEN Some(f) ELSE Some(SubSeq(f, 1, dot - 1))

\* Path::with_extension: the path is cut at the end of the file stem and,
\* for a non-empty extension, '.' and the extension are added
with_extension(p, ext) ==
    IF file_name(p) = None THEN p
    ELSE LET f == file_name(p)[2]
             stem == file_stem(p)[2]
         IN  SubSeq(p, 1, Len(p) - Len(f)) \o stem
                \o (IF ext = <<>> THEN <<>> ELSE <<".">> \o ext)

\* Path::parent
parent(p) ==
    IF p = <<>> THEN None
    ELSE LET slash == last_index_of(p, "/")
         IN  IF slash = 0 THEN Some(<<>>) ELSE Some(SubSeq(p, 1, slash - 1))

\* Path::join with a relative component
path_join(dir, component) ==
    IF dir = <<>> \/ dir[Len(dir)] = "/" THEN dir \o component
    ELSE dir \o <<"/">> \o component

\* generate_flat: the path the flat file is written to
final_path(output_path) ==
    IF extension(output_path) = Some(<<"p", "y">>) THEN output_path
    ELSE with_extension(output_path, <<"p", "y">>)

\* generate_library: the path of a table's file
table_file_path(output_dir, table_n) == path_join(output_dir, table_n \o <<".", "p", "y">>)

\* SqliftError::CodeGen that names 'flat' whatever was rendered
codegen_error_flat(artifact, template) == <<"CodeGen", <<"f", "l", "a", "t">>, "render">>

\* SqliftError::CodeGen { table, message }
codegen_error(artifact, template) == <<"CodeGen", artifact, "render">>

\* an I/O failure reported as a CodeGen error
output_error_as_codegen == <<"CodeGen", <<"o", "u", "t", "p", "u", "t">>, "io">>

\* SqliftError::Output(std::io::Error), which `?` makes from the io::Error
output_error == <<"Output", "io">>

\* render_table with one template for both styles
table_template_standalone(function_style) == "standalone"

\* render_table: the template of the function style
table_template(function_style) ==
    IF function_style = "Standalone" THEN "standalone" ELSE "repository"

GenTable(table_n) ==
    [name |-> table_n,
     columns |-> columns_of_rows(CatalogColumnRows(table_n)),
     primary_key |-> CatalogKeyRows(table_n)]

\* lists of distinct table names, as a schema of PostgreSQL has them
GenTableNames ==
    { s \in UNION { [1..n -> NameSet] : n \in 0..MaxGenTables } :
        \A i, j \in 1..Len(s) : s[i] = s[j] => i = j }

GenSchemas ==
    { [name |-> <<"p", "u", "b", "l", "i", "c">>,
       tables |-> [k \in 1..Len(names) |-> GenTable(names[k])],
       enums |-> es] :
      names \in GenTableNames,
      es \in { <<>>, group_enum_rows(SampleEnumRows, <<>>) } }

LibraryPaths == { <<"o", "u", "t">>, <<"g", "e", "n", "/", "m", "o", "d", "e", "l", "s">> }
FlatPaths == { <<"o", "u", "t">>, <<"m", "o", "d", "e", "l", "s", ".", "p", "y">>, <<"m", "o", "d", "e", "l", "s", ".", "v", "2">>, <<"g", "e", "n", "/", "m", "o", "d", "e", "l", "s", ".", "v", "2">>, <<".", "h", "i", "d", "d", "e", "n">>, <<"g", "e", "n", ".", "d", "/", "o", "u", "t">> }

GenConfigs ==
    { [output_path |-> p, output_mode |-> "Library", function_style |-> fs] :
        p \in LibraryPaths, fs \in {"Standalone", "Class"} }
    \cup
    { [output_path |-> p, output_mode |-> "Flat", function_style |-> fs] :
        p \in FlatPaths, fs \in {"Standalone", "Class"} }

InitGenerate ==
    /\ pc = "generate"
    /\ schema \in GenSchemas
    /\ config \in GenConfigs
    /\ next_table = 1
    /\ effects = <<>>
    /\ result = Pending
    /\ table = NoTable
    /\ call = "none"
    /\ ret = <<>>
    /\ IdleTypes
    /\ IdleIntrospect

\* generate_library: what follows the enum file, and each table file
AfterTable(n) == IF n <= Len(schema.tables) THEN "render_table" ELSE "render_init"

\* generate: the match on config.output_mode
Generate ==
    /\ pc = "generate"
    /\ pc' = IF config.output_mode = "Library" THEN "create_output_dir" ELSE "create_parent_dir"
    /\ UNCHANGED <<result, genVars, introVars, typeVars, tableVars>>

CreateOutputDir ==
    /\ pc = "create_output_dir"
    /\ effects' = Append(effects, <<"create_dir_all", config.output_path>>)
    /\ \/ /\ pc' = IF schema.enums # <<>> THEN "render_enums" ELSE AfterTable(next_table)
          /\ UNCHANGED <<result, next_table>>
       \/ /\ result' = Err(output_error)
          /\ pc' = "generate_failed"
          /\ UNCHANGED next_table
    /\ UNCHANGED <<schema, config, introVars, typeVars, tableVars>>

RenderEnums ==
    /\ pc = "render_enums"
    /\ effects' = Append(effects, <<"render", "enum", <<"e", "n", "u", "m", "s">>,
                                  enums_context(schema.enums)>>)
    /\ \/ /\ pc' = "write_enums"
          /\ UNCHANGED <<result, next_table>>
       \/ /\ result' = Err(codegen_error(<<"e", "n", "u", "m", "s">>, "enum"))
          /\ pc' = "generate_failed"
          /\ UNCHANGED next_table
    /\ UNCHANGED <<schema, config, introVars, typeVars, tableVars>>

WriteEnums ==
    /\ pc = "write_enums"
    /\ effects' = Append(effects, <<"write", path_join(config.output_path, <<"e", "n", "u", "m", "s", ".", "p", "y">>), <<"e", "n", "u", "m", "s">>>>)
    /\ \/ /\ pc' = AfterTable(next_table)
          /\ UNCHANGED <<result, next_table>>
       \/ /\ result' = Err(output_error)
          /\ pc' = "generate_failed"
          /\ UNCHANGED next_table
    /\ UNCHANGED <<schema, config, introVars, typeVars, tableVars>>

RenderTable ==
    /\ pc = "render_table"
    /\ effects' = Append(effects, <<"render", table_template(config.function_style),
                                  schema.tables[next_table].name,
                                  build_table_context(schema.tables[next_table], schema)>>)
    /\ \/ /\ pc' = "write_table"
          /\ UNCHANGED <<result, next_table>>
       \/ /\ result' = Err(codegen_error(schema.tables[next_table].name, table_template(config.function_style)))
          /\ pc' = "generate_failed"
          /\ UNCHANGED next_table
    /\ UNCHANGED <<schema, config, introVars, typeVars, tableVars>>

WriteTable ==
    /\ pc = "write_table"
    /\ effects' = Append(effects, <<"write", table_file_path(config.output_path, schema.tables[next_table].name),
                                  schema.tables[next_table].name>>)
    /\ \/ /\ pc' = AfterTable(next_table + 1)
          /\ next_table' = next_table + 1 /\ UNCHANGED result
       \/ /\ result' = Err(output_error)
          /\ pc' = "generate_failed"
          /\ UNCHANGED next_table
    /\ UNCHANGED <<schema, config, introVars, typeVars, tableVars>>

RenderInit ==
    /\ pc = "render_init"
    /\ effects' = Append(effects, <<"render", "init", <<"_", "_", "i", "n", "i", "t", "_", "_">>,
                                  init_context(schema)>>)
    /\ \/ /\ pc' = "write_init"
          /\ UNCHANGED <<result, next_table>>
       \/ /\ result' = Err(codegen_error(<<"_", "_", "i", "n", "i", "t", "_", "_">>, "init"))
          /\ pc' = "generate_failed"
          /\ UNCHANGED next_table
    /\ UNCHANGED <<schema, config, introVars, typeVars, tableVars>>

WriteInit ==
    /\ pc = "write_init"
    /\ effects' = Append(effects, <<"write", path_join(config.output_path, <<"_", "_", "i", "n", "i", "t", "_", "_", ".", "p", "y">>), <<"_", "_", "i", "n", "i", "t", "_", "_">>>>)
    /\ \/ /\ pc' = "generated"
          /\ result' = Ok(<<>>) /\ UNCHANGED next_table
       \/ /\ result' = Err(output_error)
          /\ pc' = "generate_failed"
          /\ UNCHANGED next_table
    /\ UNCHANGED <<schema, config, introVars, typeVars, tableVars>>

\* generate_flat: the parent directory is created unless it is the empty path
CreateParentDir ==
    /\ pc = "create_parent_dir"
    /\ \/ /\ parent(config.output_path) = None \/ parent(config.output_path) = Some(<<>>)
          /\ pc' = "render_flat"
          /\ UNCHANGED <<effects, result>>
       \/ /\ parent(config.output_path) # None
          /\ parent(config.output_path) # Some(<<>>)
          /\ effects' = Append(effects, <<"create_dir_all", parent(config.output_path)[2]>>)
          /\ \/ /\ pc' = "render_flat"
                /\ UNCHANGED result
             \/ /\ result' = Err(output_error)
                /\ pc' = "generate_failed"
    /\ UNCHANGED <<schema, config, next_table, introVars, typeVars, tableVars>>

\* generate_flat that creates the file before it renders
RenderFlat_after_create ==
    /\ pc = "render_flat"
    /\ effects' = effects \o << <<"write", final_path(config.output_path), <<"f", "l", "a", "t">>>>,
                                <<"render", "flat", <<"f", "l", "a", "t">>, flat_context(schema, config)>> >>
    /\ \/ /\ pc' = "write_flat"
          /\ UNCHANGED <<result, next_table>>
       \/ /\ result' = Err(codegen_error(<<"f", "l", "a", "t">>, "flat"))
          /\ pc' = "generate_failed"
          /\ UNCHANGED next_table
    /\ UNCHANGED <<schema, config, introVars, typeVars, tableVars>>

RenderFlat ==
    /\ pc = "render_flat"
    /\ effects' = Append(effects, <<"render", "flat", <<"f", "l", "a", "t">>,
                                  flat_context(schema, config)>>)
    /\ \/ /\ pc' = "write_flat"
          /\ UNCHANGED <<result, next_table>>
       \/ /\ result' = Err(codegen_error(<<"f", "l", "a", "t">>, "flat"))
          /\ pc' = "generate_failed"
          /\ UNCHANGED next_table
    /\ UNCHANGED <<schema, config, introVars, typeVars, tableVars>>

WriteFlat ==
    /\ pc = "write_flat"
    /\ effects' = Append(effects, <<"write", final_path(config.output_path), <<"f", "l", "a", "t">>>>)
    /\ \/ /\ pc' = "generated"
          /\ result' = Ok(<<>>) /\ UNCHANGED next_table
       \/ /\ result' = Err(output_error)
          /\ pc' = "generate_failed"
          /\ UNCHANGED next_table
    /\ UNCHANGED <<schema, config, introVars, typeVars, tableVars>>

NextGenerate ==
    \/ Generate
    \/ CreateOutputDir
    \/ RenderEnums
    \/ WriteEnums
    \/ RenderTable
    \/ WriteTable
    \/ RenderInit
    \/ WriteInit
    \/ CreateParentDir
    \/ RenderFlat
    \/ WriteFlat

SpecGenerate == InitGenerate /\ [][NextGenerate]_vars

Writes == SelectSeq(effects, LAMBDA e : e[1] = "write")
WritePaths == [k \in 1..Len(Writes) |-> Writes[k][2]]
LastEffect == effects[Len(effects)]

IsPrefix(s, u) == Len(s) <= Len(u) /\ SubSeq(u, 1, Len(s)) = s

EnumsPath == config.output_path \o <<"/", "e", "n", "u", "m", "s", ".", "p", "y">>
InitPath == config.output_path \o <<"/", "_", "_", "i", "n", "i", "t", "_", "_", ".", "p", "y">>
TablePath(k) == config.output_path \o <<"/">> \o schema.tables[k].name \o <<".", "p", "y">>

\* the paths a Library run is to write, in order
LibraryPaths_InOrder ==
    (IF schema.enums # <<>> THEN <<EnumsPath>> ELSE <<>>)
        \o [k \in 1..Len(schema.tables) |-> TablePath(k)]
        \o <<InitPath>>

\* the writes so far are the first of the files to write, after the directory
LibraryOrder ==
    /\ effects # <<>> => effects[1] = <<"create_dir_all", config.output_path>>
    /\ IsPrefix(WritePaths, LibraryPaths_InOrder)
    /\ pc = "generated" => WritePaths = LibraryPaths_InOrder

\* C16: a Library run creates the directory, then writes enums.py iff the
\* schema has enums, then <table.name>.py per table in schema order, then
\* __init__.py; __init__.py is written last and by no run that failed
\* before its last write.
C16_LibraryWriteOrder ==
    config.output_mode = "Library" =>
        /\ LibraryOrder
        /\ \A k \in 1..Len(WritePaths) :
              /\ WritePaths[k] = InitPath => k = Len(LibraryPaths_InOrder)
              /\ WritePaths[k] = EnumsPath => schema.enums # <<>>

\* C17: no path is written twice in one run.
C17_PathsWrittenOnce ==
    \A i, j \in 1..Len(Writes) : Writes[i][2] = Writes[j][2] => i = j

\* C18: the flat file is written to the configured path when its extension
\* is 'py', and to the configured path followed by '.py' otherwise.
C18_FlatAppendsExtension ==
    config.output_mode = "Flat" =>
        \A k \in 1..Len(WritePaths) :
            WritePaths[k] = IF extension(config.output_path) = Some(<<"p", "y">>)
                            THEN config.output_path
                            ELSE config.output_path \o <<".", "p", "y">>

\* the artifact a render failure is to name, by the template rendered
ArtifactOf(template) ==
    CASE template = "enum" -> <<"e", "n", "u", "m", "s">>
      [] template \in {"standalone", "repository"} -> schema.tables[next_table].name
      [] template = "init" -> <<"_", "_", "i", "n", "i", "t", "_", "_">>
      [] template = "flat" -> <<"f", "l", "a", "t">>

RenderFailed == pc = "generate_failed" /\ LastEffect[1] = "render"

\* C19: when a render fails the result is a CodeGen error naming 'enums',
\* the table, '__init__' or 'flat', and nothing is rendered or written
\* afterwards.
C19_RenderFailureStops ==
    /\ [](RenderFailed =>
            /\ result[1] = "Err"
            /\ result[2][1] = "CodeGen"
            /\ result[2][2] = ArtifactOf(LastEffect[2]))
    /\ [][pc # "generate_failed"]_vars

\* the render of the second table fails, the first table's file written
C19_Witness ==
    /\ RenderFailed
    /\ LastEffect[2] = "repository"
    /\ next_table = 2
    /\ Len(Writes) = 1
    /\ result[2][2] = schema.tables[2].name

\* C20 as stated: every failure of generate is a CodeGen error naming an
\* artifact of the run.
C20_EveryFailureIsCodeGen ==
    pc = "generate_failed" =>
        /\ result[2][1] = "CodeGen"
        /\ result[2][2] \in { <<"e", "n", "u", "m", "s">>, <<"_", "_", "i", "n", "i", "t", "_", "_">>, <<"f", "l", "a", "t">> }
                              \cup { schema.tables[k].name : k \in 1..Len(schema.tables) }

\* C20 amended: a failure of generate is a CodeGen error naming the artifact
\* whose render failed, or, when creating a directory or writing a file
\* failed, an Output error, which carries the I/O error and no artifact.
C20_FailureKinds ==
    pc = "generate_failed" =>
        /\ result[1] = "Err"
        /\ LastEffect[1] = "render" =>
              result[2][1] = "CodeGen" /\ result[2][2] = ArtifactOf(LastEffect[2])
        /\ LastEffect[1] \in {"create_dir_all", "write"} => result[2] = <<"Output", "io">>

\* the write of a table's file fails
C20_Witness ==
    /\ pc = "generate_failed"
    /\ LastEffect[1] = "write"
    /\ next_table <= Len(schema.tables)
    /\ LastEffect[3] = schema.tables[next_table].name
    /\ result[2][1] = "Output"

Renders == SelectSeq(effects, LAMBDA e : e[1] = "render")

OtherStyle == IF config.function_style = "Standalone" THEN "Class" ELSE "Standalone"
OtherConfig == [config EXCEPT !.function_style = OtherStyle]

IsTableTemplate(template) == template \in {"standalone", "repository"}

TableNamed(n) ==
    schema.tables[CHOOSE k \in 1..Len(schema.tables) : schema.tables[k].name = n]

\* the context the run of the same schema with the other function style
\* hands to the template at the same render
OtherRunContext(e) ==
    CASE e[2] = "enum" -> enums_context(schema.enums)
      [] e[2] = "init" -> init_context(schema)
      [] e[2] = "flat" -> flat_context(schema, OtherConfig)
      [] OTHER -> build_table_context(TableNamed(e[3]), schema)

\* C23 as stated: every context handed to a template is the one the run
\* with the other function style hands over at that render.
C23_StyleOnlySelectsTemplate ==
    \A k \in 1..Len(Renders) : Renders[k][4] = OtherRunContext(Renders[k])

WithoutStyle(ctx) == [ctx EXCEPT !.function_style = "any"]

\* C23 amended: the table template is 'standalone' or 'repository' by the
\* function style and the enum, table and init contexts are those of the
\* run with the other style; the context of the flat template differs from
\* the other run's in its function_style entry, 'standalone' or 'class', and
\* in nothing else.
C23_StyleSelectsTemplateOrFlag ==
    \A k \in 1..Len(Renders) :
        LET e == Renders[k]
        IN  /\ e[2] # "flat" => e[4] = OtherRunContext(e)
            /\ IsTableTemplate(e[2]) =>
                  e[2] = IF config.function_style = "Standalone" THEN "standalone"
                         ELSE "repository"
            /\ e[2] = "flat" =>
                  /\ e[4].function_style = IF config.function_style = "Standalone"
                                           THEN "standalone" ELSE "class"
                  /\ e[4].function_style # OtherRunContext(e).function_style
                  /\ WithoutStyle(e[4]) = WithoutStyle(OtherRunContext(e))

\* a Class run in Flat mode that has rendered the flat file of two tables
C23_Witness ==
    /\ config.function_style = "Class"
    /\ config.output_mode = "Flat"
    /\ Len(Renders) = 1
    /\ Renders[1][2] = "flat"
    /\ Renders[1][4].function_style = "class"
    /\ Len(Renders[1][4].tables) = 2

\* C27: in Flat mode nothing is written before the flat file has been
\* rendered; a run whose render failed has written nothing, its only
\* effect besides the render being the creation of the parent directory;
\* a run that succeeded has written one file.
C27_FlatRenderBeforeWrite ==
    config.output_mode = "Flat" =>
        /\ \A i \in 1..Len(effects) :
              effects[i][1] = "write" =>
                  \E j \in 1..(i - 1) : effects[j][1] = "render" /\ effects[j][2] = "flat"
        /\ RenderFailed =>
              /\ Writes = <<>>
              /\ \A i \in 1..(Len(effects) - 1) : effects[i][1] = "create_dir_all"
        /\ Len(Writes) <= 1
        /\ pc = "generated" => Len(Writes) = 1

\* the render fails after the parent directory was created
C27_Witness ==
    /\ config.output_mode = "Flat"
    /\ RenderFailed
    /\ Len(effects) = 2
    /\ effects[1] = <<"create_dir_all", <<"g", "e", "n">>>>
    /\ Writes = <<>>

----------------------------------------------------------------------------
(* Inputs of the render contexts.                                          *)

\* Schemas for the contexts.  A column type is one of ContextBaseTypes in up
\* to MaxDepth arrays; the enums of the schema are mood, o_s, both or none.
ContextBaseTypes ==
    { <<"Integer">>, <<"Text">>, <<"Numeric">>, <<"TimestampTz">>, <<"Date">>, <<"Time">>,
      <<"Uuid">>, <<"JsonBinary">>, <<"Enum", <<"m", "o", "o", "d">>>>, <<"Enum", <<"o", "_", "s">>>> }

RECURSIVE ArraysOf(_, _)
ArraysOf(data_type, d) == IF d = 0 THEN data_type ELSE <<"Array", ArraysOf(data_type, d - 1)>>

ContextTypes == { ArraysOf(b, d) : b \in ContextBaseTypes, d \in 0..MaxDepth }

TypedColumn(k, data_type, nullable) ==
    [name |-> ColName(k), data_type |-> data_type, is_nullable |-> nullable,
     has_default |-> FALSE, is_auto_generated |-> FALSE]

ContextKeys == { <<>>, <<ColName(1)>>, <<GhostName>> }

ContextEnums ==
    { <<>>,
      <<[name |-> <<"o", "_", "s">>, values |-> <<<<"x">>>>]>>,
      <<[name |-> <<"m", "o", "o", "d">>, values |-> <<<<"x">>, <<"y">>>>], [name |-> <<"o", "_", "s">>, values |-> <<<<"x">>>>]>> }

\* one table of one column, one table of two columns, or two tables of one
\* column each
ContextTables ==
    { <<[name |-> <<"u", "s", "e", "r", "s">>, columns |-> <<TypedColumn(1, dt, n)>>, primary_key |-> pk]>> :
        dt \in ContextTypes, n \in BOOLEAN, pk \in ContextKeys }
    \cup
    { <<[name |-> <<"u", "s", "e", "r", "s">>,
         columns |-> <<TypedColumn(1, p[1], FALSE), TypedColumn(2, p[2], TRUE)>>,
         primary_key |-> <<ColName(1)>>]>> : p \in ContextTypes \X ContextTypes }
    \cup
    { <<[name |-> <<"u", "s", "e", "r", "s">>, columns |-> <<TypedColumn(1, p[1], FALSE)>>,
         primary_key |-> <<ColName(1)>>],
        [name |-> <<"e", "n", "u", "m", "s">>, columns |-> <<TypedColumn(1, p[2], FALSE)>>,
         primary_key |-> <<>>]>> : p \in ContextTypes \X ContextTypes }

InitContext ==
    /\ pc = "context"
    /\ \E ts \in ContextTables, es \in ContextEnums :
          schema = [name |-> <<"p", "u", "b", "l", "i", "c">>, tables |-> ts, enums |-> es]
    /\ config = NoConfig
    /\ next_table = 0
    /\ effects = <<>>
    /\ result = Pending
    /\ table = NoTable
    /\ call = "none"
    /\ ret = <<>>
    /\ IdleTypes
    /\ IdleIntrospect

\* build_column_context for a column of the schema
CallBuildColumnContext ==
    /\ pc = "context"
    /\ \E k \in 1..Len(schema.tables) : \E c \in 1..Len(schema.tables[k].columns) :
          /\ table' = schema.tables[k]
          /\ ret' = <<c, build_column_context(schema.tables[k].columns[c], schema)>>
    /\ call' = "build_column_context"
    /\ UNCHANGED <<pc, typeVars, pipeVars>>

\* collect_type_imports for a column of the schema, into an empty set
CallCollectTypeImports ==
    /\ pc = "context"
    /\ \E k \in 1..Len(schema.tables) : \E c \in 1..Len(schema.tables[k].columns) :
          /\ table' = schema.tables[k]
          /\ ret' = <<c, collect_type_imports(schema.tables[k].columns[c].data_type, schema, {})>>
    /\ call' = "collect_type_imports"
    /\ UNCHANGED <<pc, typeVars, pipeVars>>

CallBuildTableContext ==
    /\ pc = "context"
    /\ \E k \in 1..Len(schema.tables) :
          /\ table' = schema.tables[k]
          /\ ret' = build_table_context(schema.tables[k], schema)
    /\ call' = "build_table_context"
    /\ UNCHANGED <<pc, typeVars, pipeVars>>

CallCollectImports ==
    /\ pc = "context"
    /\ table' = NoTable
    /\ ret' = collect_imports(schema)
    /\ call' = "collect_imports"
    /\ UNCHANGED <<pc, typeVars, pipeVars>>

NextContext ==
    \/ CallBuildColumnContext
    \/ CallCollectTypeImports
    \/ CallBuildTableContext
    \/ CallCollectImports

SpecContext == InitContext /\ [][NextContext]_vars

RECURSIVE ElementType(_)
ElementType(data_type) ==
    IF data_type[1] = "Array" THEN ElementType(data_type[2]) ELSE data_type

RECURSIVE ArrayDepth(_)
ArrayDepth(data_type) ==
    IF data_type[1] = "Array" THEN 1 + ArrayDepth(data_type[2]) ELSE 0

RECURSIVE ListOf(_, _)
ListOf(s, d) == IF d = 0 THEN s ELSE <<"l", "i", "s", "t", "[">> \o ListOf(s, d - 1) \o <<"]">>

IsKnownEnum(name) == \E i \in 1..Len(schema.enums) : schema.enums[i].name = name

\* C21: for a column of type Enum(name) in any number of arrays, the Python
\* type is to_pascal_case(name) (in as many list[..]) and the one import is
\* that of the class, when schema.enums has the name; it is 'str' and no
\* import when it has not.
C21_EnumLookup ==
    call \in {"build_column_context", "collect_type_imports"} =>
        LET data_type == table.columns[ret[1]].data_type
            element == ElementType(data_type)
        IN  element[1] = "Enum" =>
              LET name == element[2]
                  py == ListOf(IF IsKnownEnum(name) THEN to_pascal_case(name) ELSE <<"s", "t", "r">>,
                               ArrayDepth(data_type))
              IN  /\ call = "build_column_context" =>
                        /\ ret[2].base_type = py
                        /\ ret[2].python_type =
                              IF table.columns[ret[1]].is_nullable THEN py \o <<" ", "|", " ", "N", "o", "n", "e">> ELSE py
                  /\ call = "collect_type_imports" =>
                        ret[2] = IF IsKnownEnum(name)
                                 THEN { <<"f", "r", "o", "m", " ", ".", "e", "n", "u", "m", "s", " ", "i", "m", "p", "o", "r", "t", " ">> \o to_pascal_case(name) }
                                 ELSE {}

\* an array of a known enum, and next to it an enum the schema lacks
C21_Witness ==
    /\ call = "build_column_context"
    /\ Len(table.columns) = 2
    /\ ret[1] = 1
    /\ table.columns[1].data_type = <<"Array", <<"Enum", <<"o", "_", "s">>>>>>
    /\ table.columns[2].data_type = <<"Enum", <<"m", "o", "o", "d">>>>
    /\ ~IsKnownEnum(<<"m", "o", "o", "d">>)
    /\ ret[2].base_type = <<"l", "i", "s", "t", "[", "O", "S", "]">>

\* the import a type requires, if any, arrays unwrapped
RequiredImports(data_type) ==
    LET element == ElementType(data_type)
        tag == element[1]
    IN  IF tag = "Numeric" THEN { <<"f", "r", "o", "m", " ", "d", "e", "c", "i", "m", "a", "l", " ", "i", "m", "p", "o", "r", "t", " ", "D", "e", "c", "i", "m", "a", "l">> }
        ELSE IF tag \in {"Timestamp", "TimestampTz"} THEN { <<"f", "r", "o", "m", " ", "d", "a", "t", "e", "t", "i", "m", "e", " ", "i", "m", "p", "o", "r", "t", " ", "d", "a", "t", "e", "t", "i", "m", "e">> }
        ELSE IF tag = "Date" THEN { <<"f", "r", "o", "m", " ", "d", "a", "t", "e", "t", "i", "m", "e", " ", "i", "m", "p", "o", "r", "t", " ", "d", "a", "t", "e">> }
        ELSE IF tag \in {"Time", "TimeTz"} THEN { <<"f", "r", "o", "m", " ", "d", "a", "t", "e", "t", "i", "m", "e", " ", "i", "m", "p", "o", "r", "t", " ", "t", "i", "m", "e">> }
        ELSE IF tag = "Uuid" THEN { <<"f", "r", "o", "m", " ", "u", "u", "i", "d", " ", "i", "m", "p", "o", "r", "t", " ", "U", "U", "I", "D">> }
        ELSE IF tag \in {"Json", "JsonBinary"} THEN { <<"f", "r", "o", "m", " ", "t", "y", "p", "i", "n", "g", " ", "i", "m", "p", "o", "r", "t", " ", "A", "n", "y">> }
        ELSE IF tag = "Enum" /\ IsKnownEnum(element[2])
             THEN { <<"f", "r", "o", "m", " ", ".", "e", "n", "u", "m", "s", " ", "i", "m", "p", "o", "r", "t", " ">> \o to_pascal_case(element[2]) }
        ELSE {}

TableRequires(t) == UNION { RequiredImports(t.columns[k].data_type) : k \in 1..Len(t.columns) }

Elements(v) == { v[k] : k \in 1..Len(v) }

Ascending(v) == \A k \in 1..(Len(v) - 1) : string_lt(v[k], v[k + 1])

\* C22: the imports of a table context are strictly ascending (so without
\* duplicates) and are the imports its columns' types require, arrays
\* unwrapped; the imports of the flat file are strictly ascending and are
\* the union of the import lists of the tables.
C22_Imports ==
    /\ call = "build_table_context" =>
          /\ Ascending(ret.imports)
          /\ Elements(ret.imports) = TableRequires(table)
    /\ call = "collect_imports" =>
          /\ Ascending(ret)
          /\ Elements(ret) =
                UNION { Elements(collect_table_imports(schema.tables[k], schema)) :
                          k \in 1..Len(schema.tables) }
          /\ Elements(ret) = UNION { TableRequires(schema.tables[k]) : k \in 1..Len(schema.tables) }

\* Array(Array(Numeric)) next to a known enum: two imports, the enum's first
C22_Witness ==
    /\ call = "build_table_context"
    /\ Len(table.columns) = 2
    /\ table.columns[1].data_type = <<"Array", <<"Array", <<"Numeric">>>>>>
    /\ table.columns[2].data_type = <<"Enum", <<"o", "_", "s">>>>
    /\ ret.imports = << <<"f", "r", "o", "m", " ", ".", "e", "n", "u", "m", "s", " ", "i", "m", "p", "o", "r", "t", " ", "O", "S">>, <<"f", "r", "o", "m", " ", "d", "e", "c", "i", "m", "a", "l", " ", "i", "m", "p", "o", "r", "t", " ", "D", "e", "c", "i", "m", "a", "l">> >>

\* C26: in a table context has_pk is true exactly when pk_columns is not
\* empty.
C26_HasPkIffKeyColumns ==
    call = "build_table_context" => (ret.has_pk <=> ret.pk_columns # <<>>)

----------------------------------------------------------------------------
(* run: src/main.rs.  The configuration is loaded, the database connected  *)
(* to and introspected by the steps of introspect above; then run returns  *)
(* early for a schema without tables, or builds the CodeGenConfig.         *)

InitRun ==
    /\ pc = "run"
    /\ schema_name = <<"p", "u", "b", "l", "i", "c">>
    /\ filter \in Filters
    /\ \E names \in SubSeqsOf(CatalogNames) :
          db = [enum_rows |-> SampleEnumRows, tables |-> names,
                      column_rows |-> SampleColumnRows]
    /\ queries = <<>>
    /\ enums = <<>>
    /\ table_names = <<>>
    /\ cur_columns = <<>>
    /\ tables = <<>>
    /\ result = Pending
    /\ table = NoTable
    /\ call = "none"
    /\ ret = <<>>
    /\ IdleTypes
    /\ IdleGenerate

\* DbConfig::load(&cli.env_file)?
LoadConfiguration ==
    /\ pc = "run"
    /\ \/ /\ pc' = "connect"
          /\ UNCHANGED result
       \/ /\ result' = Err(<<"Config">>)
          /\ pc' = "failed"
    /\ UNCHANGED <<introVars, genVars, typeVars, tableVars>>

\* introspect_postgres: postgres::Client::connect(..)?
Connect ==
    /\ pc = "connect"
    /\ \/ /\ pc' = "query_enums"
          /\ UNCHANGED result
       \/ /\ result' = Err(<<"Connection">>)
          /\ pc' = "failed"
    /\ UNCHANGED <<introVars, genVars, typeVars, tableVars>>

\* run without the early return
BuildCodeGenConfig_for_any_schema ==
    /\ pc = "introspected"
    /\ schema' = result[2]
    /\ \E cfg \in GenConfigs : config' = cfg
    /\ pc' = "code_generation"
    /\ UNCHANGED <<result, next_table, effects, introVars, typeVars, tableVars>>

\* if schema.tables.is_empty() { warn!(..); return Ok(()) }
ReturnNoTables ==
    /\ pc = "introspected"
    /\ result[2].tables = <<>>
    /\ schema' = result[2]
    /\ effects' = Append(effects, <<"warn", "No tables found after filtering">>)
    /\ result' = Ok(<<>>)
    /\ pc' = "run_done"
    /\ UNCHANGED <<config, next_table, introVars, typeVars, tableVars>>

\* CodeGenConfig::new(cli.output).with_output_mode(..).with_function_style(..)
BuildCodeGenConfig ==
    /\ pc = "introspected"
    /\ result[2].tables # <<>>
    /\ schema' = result[2]
    /\ \E cfg \in GenConfigs : config' = cfg
    /\ pc' = "code_generation"
    /\ UNCHANGED <<result, next_table, effects, introVars, typeVars, tableVars>>

\* TODO: Code generation; Ok(())
ReturnNotImplemented ==
    /\ pc = "code_generation"
    /\ effects' = Append(effects, <<"info", "Code generation not yet implemented">>)
    /\ result' = Ok(<<>>)
    /\ pc' = "run_done"
    /\ UNCHANGED <<schema, config, next_table, introVars, typeVars, tableVars>>

NextRun ==
    \/ LoadConfiguration
    \/ Connect
    \/ NextIntrospect
    \/ ReturnNoTables
    \/ BuildCodeGenConfig
    \/ ReturnNotImplemented

SpecRun == InitRun /\ [][NextRun]_vars

NoTablesWarning == <<"warn", "No tables found after filtering">>

\* C24: when introspect has returned a Schema without tables, the next step
\* of run is its return: Ok, with the zero-table warning, no CodeGenConfig
\* built and nothing else done; a finished run whose schema has no tables
\* is in that state.
C24_NoTablesSkipsGeneration ==
    /\ [][(pc = "introspected" /\ result[2].tables = <<>>) =>
            /\ pc' = "run_done"
            /\ result' = Ok(<<>>)
            /\ config' = NoConfig
            /\ effects' = <<NoTablesWarning>>]_vars
    /\ [](pc \in {"code_generation", "run_done"} /\ schema.tables = <<>> =>
            /\ pc = "run_done"
            /\ result = Ok(<<>>)
            /\ config = NoConfig
            /\ effects = <<NoTablesWarning>>)

\* the filter has removed each of the three tables of the database
C24_Witness ==
    /\ pc = "run_done"
    /\ Len(db.tables) = 3
    /\ IsSome(filter.exclude)
    /\ schema.tables = <<>>
    /\ Len(queries) = 2
    /\ result = Ok(<<>>)

====
